---- MODULE Spec2Model ----
(***************************************************************************)
(* PyPortal psychedelic screensaver: the effect scheduler                  *)
(* (PyPortalScreensaver in examples/pyportal_screensaver.py and            *)
(* ScreensaverManager in pyportal_autoscroll_2effects.py /                 *)
(* pyportal_8effects_stable.py) and the animation state of the effects.    *)
(*                                                                         *)
(* Time.  time.monotonic() is modelled as an integer count of 1/30 s, the  *)
(* largest unit in which every interval of the schedulers is a whole       *)
(* number: frame_time 1/15 s = 2, touch_debounce 0.5 s = 15,               *)
(* time.sleep(0.1) = 3, auto_scroll_time 10 s = 300, auto_advance_time     *)
(* 30 s = 900.  time.sleep(0.01) of PyPortalScreensaver.run() is shorter    *)
(* than one unit: two update() calls are at least one unit apart.          *)
(*                                                                         *)
(* Accumulators.  A float accumulator that only ever grows by one fixed    *)
(* step from 0.0 is held as the number of steps in the unit named at the   *)
(* field; a float recomputed from such an accumulator with sin/cos is held *)
(* as the term <<formula, argument>> it was computed from.                 *)
(***************************************************************************)
EXTENDS Integers, Sequences, FiniteSets, TLC

VARIABLES
    \* the schedulers (Spec)
    program,       \* which of the two schedulers this run executes
    manager,       \* the ScreensaverManager object (its attributes) + board.DISPLAY.root_group
    screensaver,   \* the PyPortalScreensaver object (its attributes) + board.DISPLAY.root_group
    monotonic,     \* the last value time.monotonic() returned
    touch_value,   \* the last sample of self.touch.value
    ticks,         \* number of update() calls made by run()
    last_tick,     \* what the last update() call did (history)
    \* one generator, reset after use, beside a freshly constructed one (SpecReset)
    gen,           \* the class of the two effect objects
    used,          \* the object that is updated, reset and updated again
    fresh,         \* the object that is only constructed and updated
    phase,         \* "warm": before the reset() of used; "run": after it
    frames,        \* the frames each object has produced in phase "run"
    \* FireEffect alone (SpecFire)
    fire,          \* the FireEffect object
    fire_log,      \* the last method called on it, the object before the call, the
                   \* seed of its random stream, and the number of update() calls
    \* the palette one constructor builds (SpecPalette)
    palette,       \* the class and the entries written so far
    \* one call of Mandelbrot._mandelbrot_iteration (SpecEscape)
    escape,        \* its arguments and, once it has returned, its result
    \* one effect and its bitmap (SpecRender)
    canvas,        \* the object, and the bitmap writes of its last update()
    \* ColorMatrixEffect alone (SpecLabels)
    matrix         \* the object, its display group and its labels

sched_vars == <<program, manager, screensaver, monotonic, touch_value, ticks, last_tick>>
trial_vars == <<gen, used, fresh, phase, frames>>
fire_vars == <<fire, fire_log>>
ext_vars == <<palette, escape, canvas, matrix>>
vars == <<program, manager, screensaver, monotonic, touch_value, ticks, last_tick,
          gen, used, fresh, phase, frames, fire, fire_log,
          palette, escape, canvas, matrix>>

\* ------------------------------------------------------------------------
\* Bounds of the model
\* ------------------------------------------------------------------------
MaxTicks == 4
MaxWarm == 3
MaxRun == 3
MaxFireUpdates == 3

\* ------------------------------------------------------------------------
\* Program constants, in units of 1/30 s
\* ------------------------------------------------------------------------
touch_debounce == 15
auto_advance_time == 900
frame_time == 2

\* Clock advance between the last reading of one update() and the first
\* reading of the next (the render, then time.sleep(0.01)).  With ReadSteps
\* the differences the scheduler compares fall below, on and above each of
\* its intervals.
TickSteps == {1, touch_debounce, auto_advance_time}
\* Clock advance between two successive readings inside one update().
ReadSteps == {0, 1}
\* Reading of the clock when __init__ runs.
StartTimes == {0, touch_debounce + 1}

\* ------------------------------------------------------------------------
\* Effects of examples/screensaver_effects
\* ------------------------------------------------------------------------

\* PlasmaField: time in 1/100 (plasma_speed = 0.08)
PlasmaField_init == [time |-> 0]
PlasmaField_reset(e) == [e EXCEPT !.time = 0]
PlasmaField_update(e) == [e EXCEPT !.time = @ + 8]

\* Kaleidoscope: time in 1/100 (rotation_speed = 0.02), color_shift in 1/2
Kaleidoscope_init == [time |-> 0, color_shift |-> 0]
Kaleidoscope_reset(e) == [e EXCEPT !.time = 0, !.color_shift = 0]
Kaleidoscope_update(e) == [e EXCEPT !.time = @ + 2, !.color_shift = @ + 1]

\* Mandelbrot: time in 1/10, zoom in 1/10000, center_x / center_y in 1/1000000
zoom_cycle_time == 200
zoom_center_x == -235125
zoom_center_y == 827215
Mandelbrot_init ==
    [time |-> 0, zoom |-> 10000, frame_count |-> 0, color_offset |-> 0,
     center_x |-> -500000, center_y |-> 0]
\* reset() that leaves zoom as it is
Mandelbrot_reset_keeps_zoom(e) ==
    [e EXCEPT !.time = 0, !.frame_count = 0, !.color_offset = 0]

Mandelbrot_reset(e) ==
    [e EXCEPT !.time = 0, !.zoom = 10000, !.frame_count = 0, !.color_offset = 0]
Mandelbrot_update(e) ==
    LET fc == e.frame_count + 1
        e1 == IF fc < zoom_cycle_time
              THEN [e EXCEPT !.frame_count = fc,
                             !.zoom = (@ * 102) \div 100,
                             !.center_x = @ + ((zoom_center_x - @) \div 100),
                             !.center_y = @ + ((zoom_center_y - @) \div 100)]
              ELSE [e EXCEPT !.frame_count = 0,
                             !.zoom = 10000,
                             !.center_x = -500000,
                             !.center_y = 0]
    IN  [e1 EXCEPT !.time = @ + 1, !.color_offset = @ + 2]

\* self.effects of PyPortalScreensaver (list index i is effects[i + 1])
effects == <<"PlasmaField", "Kaleidoscope", "Mandelbrot">>

Effect_init(name) ==
    CASE name = "PlasmaField" -> PlasmaField_init
      [] name = "Kaleidoscope" -> Kaleidoscope_init
      [] name = "Mandelbrot" -> Mandelbrot_init

Effect_reset(name, e) ==
    CASE name = "PlasmaField" -> PlasmaField_reset(e)
      [] name = "Kaleidoscope" -> Kaleidoscope_reset(e)
      [] name = "Mandelbrot" -> Mandelbrot_reset(e)

Effect_update(name, e) ==
    CASE name = "PlasmaField" -> PlasmaField_update(e)
      [] name = "Kaleidoscope" -> Kaleidoscope_update(e)
      [] name = "Mandelbrot" -> Mandelbrot_update(e)

\* ------------------------------------------------------------------------
\* PyPortalScreensaver
\* ------------------------------------------------------------------------

\* __init__ at clock reading t.  trace is the list of effect-method calls
\* made since the start of the current update().
PyPortalScreensaver_init(t) ==
    [effects |-> effects,
     last_touch_time |-> 0,
     current_effect_index |-> 0,
     current_effect |-> effects[1],
     last_advance_time |-> t,
     last_frame_time |-> 0,
     fx |-> [n \in {effects[i] : i \in 1..Len(effects)} |-> Effect_init(n)],
     root_group |-> "none",
     trace |-> <<>>]

\* advance_effect() that forgets to record last_advance_time
advance_effect_stale(s, t) ==
    LET idx == (s.current_effect_index + 1) % Len(effects)
        cur == effects[idx + 1]
    IN  [s EXCEPT !.current_effect_index = idx,
                  !.current_effect = cur,
                  !.fx[cur] = Effect_reset(cur, @),
                  !.root_group = cur,
                  !.trace = Append(@, <<"reset", cur>>)]

\* advance_effect() that calls reset() before it has switched current_effect
advance_effect_reset_old(s, t) ==
    LET idx == (s.current_effect_index + 1) % Len(effects)
        cur == effects[idx + 1]
        old == s.current_effect
    IN  [s EXCEPT !.current_effect_index = idx,
                  !.current_effect = cur,
                  !.fx[old] = Effect_reset(old, @),
                  !.root_group = old,
                  !.trace = Append(@, <<"reset", old>>),
                  !.last_advance_time = t]

\* advance_effect() that moves the index and leaves current_effect
advance_effect_keeps_current(s, t) ==
    LET idx == (s.current_effect_index + 1) % Len(effects)
        cur == s.current_effect
    IN  [s EXCEPT !.current_effect_index = idx,
                  !.fx[cur] = Effect_reset(cur, @),
                  !.root_group = cur,
                  !.trace = Append(@, <<"reset", cur>>),
                  !.last_advance_time = t]

\* advance_effect(); t is the reading of time.monotonic() on line 76
advance_effect(s, t) ==
    LET idx == (s.current_effect_index + 1) % Len(effects)
        cur == effects[idx + 1]
    IN  [s EXCEPT !.current_effect_index = idx,
                  !.current_effect = cur,
                  !.fx[cur] = Effect_reset(cur, @),
                  !.root_group = cur,
                  !.trace = Append(@, <<"reset", cur>>),
                  !.last_advance_time = t]

\* handle_touch's condition without the debounce comparison
touch_accepted_no_debounce(s, touch, t) ==
    touch

\* the condition of handle_touch, line 67
touch_accepted(s, touch, t) ==
    touch /\ (t - s.last_touch_time) > touch_debounce

\* handle_touch(); t1 is its reading of the clock, t2 the one advance_effect makes
handle_touch(s, touch, t1, t2) ==
    IF touch_accepted(s, touch, t1)
    THEN [advance_effect(s, t2) EXCEPT !.last_touch_time = t1]
    ELSE s

\* update() without the auto-advance
auto_advance_never(s, t0) ==
    FALSE

\* the auto-advance condition of update(), line 89
auto_advance_due(s, t0) ==
    (t0 - s.last_advance_time) > auto_advance_time

\* the frame condition always true (a render on every update())
frame_due_always(s, t0) ==
    TRUE

\* the frame condition of update(), line 93
frame_due(s, t0) ==
    (t0 - s.last_frame_time) >= frame_time

\* the render step calling update() on every effect of the list
render_all(s, t0) ==
    IF frame_due(s, t0)
    THEN [s EXCEPT !.fx = [n \in DOMAIN @ |-> Effect_update(n, @[n])],
                   !.trace = Append(@, <<"update", s.current_effect>>),
                   !.last_frame_time = t0]
    ELSE s

\* the render step of update(), lines 93-95
render(s, t0) ==
    IF frame_due(s, t0)
    THEN [s EXCEPT !.fx[s.current_effect] = Effect_update(s.current_effect, @),
                   !.trace = Append(@, <<"update", s.current_effect>>),
                   !.last_frame_time = t0]
    ELSE s

\* update() that renders before it handles the touch and the timer
update_render_first(s, touch, t0, t1, t2, t3) ==
    LET s0 == render([s EXCEPT !.trace = <<>>], t0)
        s1 == handle_touch(s0, touch, t1, t2)
    IN  IF auto_advance_due(s1, t0) THEN advance_effect(s1, t3) ELSE s1

\* update(); t0 is the reading on line 83, t1 the one in handle_touch, t2 and
\* t3 the readings of the first and second advance_effect
update(s, touch, t0, t1, t2, t3) ==
    LET s0 == [s EXCEPT !.trace = <<>>]
        s1 == handle_touch(s0, touch, t1, t2)
        s2 == IF auto_advance_due(s1, t0) THEN advance_effect(s1, t3) ELSE s1
    IN  render(s2, t0)

\* ------------------------------------------------------------------------
\* Effects of pyportal_autoscroll_2effects.py (the same classes open
\* pyportal_8effects_stable.py)
\* ------------------------------------------------------------------------

\* PlasmaEffect: time in 1/10
PlasmaEffect_init == [time |-> 0]
PlasmaEffect_reset(e) == [e EXCEPT !.time = 0]
PlasmaEffect_update(e) == [e EXCEPT !.time = @ + 1]

\* SpiralEffect: time and rotation in 1/100
SpiralEffect_init == [time |-> 0, rotation |-> 0]
SpiralEffect_reset(e) == [e EXCEPT !.time = 0, !.rotation = 0]
SpiralEffect_update(e) == [e EXCEPT !.time = @ + 8, !.rotation = @ + 5]

\* self.effects of ScreensaverManager
manager_effects == <<"PlasmaEffect", "SpiralEffect">>

ManagerEffect_init(name) ==
    CASE name = "PlasmaEffect" -> PlasmaEffect_init
      [] name = "SpiralEffect" -> SpiralEffect_init

ManagerEffect_reset(name, e) ==
    CASE name = "PlasmaEffect" -> PlasmaEffect_reset(e)
      [] name = "SpiralEffect" -> SpiralEffect_reset(e)

ManagerEffect_update(name, e) ==
    CASE name = "PlasmaEffect" -> PlasmaEffect_update(e)
      [] name = "SpiralEffect" -> SpiralEffect_update(e)

\* ------------------------------------------------------------------------
\* ScreensaverManager
\* ------------------------------------------------------------------------
auto_scroll_time == 300
sleep_time == 3

\* Time the render of one frame takes (clock advance from the reading of
\* handle_auto_scroll to the return of update()); main() then sleeps
\* sleep_time before the next update().
RenderSteps == {0, 1, auto_scroll_time - sleep_time - 1, auto_scroll_time - sleep_time}

\* __init__ at clock reading t: every effect constructor ends in reset(),
\* so the display shows the group of the effect constructed last
ScreensaverManager_init(t) ==
    [effects |-> manager_effects,
     last_scroll_time |-> t,
     current_effect_index |-> 0,
     current_effect |-> manager_effects[1],
     fx |-> [n \in {manager_effects[i] : i \in 1..Len(manager_effects)} |->
                ManagerEffect_init(n)],
     root_group |-> manager_effects[Len(manager_effects)],
     trace |-> <<>>]

\* next_effect()
next_effect(m) ==
    LET idx == (m.current_effect_index + 1) % Len(manager_effects)
        cur == manager_effects[idx + 1]
    IN  [m EXCEPT !.current_effect_index = idx,
                  !.current_effect = cur,
                  !.fx[cur] = ManagerEffect_reset(cur, @),
                  !.root_group = cur,
                  !.trace = Append(@, <<"reset", cur>>)]

\* the condition of handle_auto_scroll
auto_scroll_due(m, t) ==
    (t - m.last_scroll_time) >= auto_scroll_time

\* handle_auto_scroll(); t is its reading of the clock
handle_auto_scroll(m, t) ==
    IF auto_scroll_due(m, t)
    THEN [next_effect(m) EXCEPT !.last_scroll_time = t]
    ELSE m

\* ScreensaverManager.update()
manager_update(m, t) ==
    LET m1 == handle_auto_scroll([m EXCEPT !.trace = <<>>], t)
    IN  [m1 EXCEPT !.fx[m1.current_effect] = ManagerEffect_update(m1.current_effect, @),
                   !.trace = Append(@, <<"update", m1.current_effect>>)]

\* ------------------------------------------------------------------------
\* Effects of pyportal_8effects_stable.py whose frames no random source enters
\* ------------------------------------------------------------------------

\* a float the code writes as a literal, and one it computes from time
literal(text) == <<text, 0>>
computed(formula, t) == <<formula, t>>

\* JuliaFractalEffect: time in 1/20, color_offset in 1
JuliaFractalEffect_init ==
    [zoom |-> literal("1.5"),
     c_real |-> literal("-0.4"),
     c_imag |-> literal("0.6"),
     time |-> 0,
     color_offset |-> 0]
JuliaFractalEffect_reset(e) == [e EXCEPT !.time = 0, !.color_offset = 0]
JuliaFractalEffect_update(e) ==
    LET t == e.time + 1
    IN  [e EXCEPT !.time = t,
                  !.color_offset = @ + 1,
                  !.c_real = computed("-0.4 + 0.3 * sin(time * 0.5)", t),
                  !.c_imag = computed("0.6 + 0.2 * cos(time * 0.7)", t),
                  !.zoom = computed("1.5 + 0.3 * sin(time * 0.3)", t)]

\* SineWaveEffect: time in 1/100, color_shift in 1/2, amplitude in 1/10,
\* phase in 1/100
SineWaveEffect_init ==
    [wave_sources |->
        << [x |-> literal("40"), y |-> literal("30"), freq |-> literal("0.2"),
            amplitude |-> 10, phase |-> 0],
           [x |-> literal("120"), y |-> literal("30"), freq |-> literal("0.15"),
            amplitude |-> 8, phase |-> 157],
           [x |-> literal("80"), y |-> literal("90"), freq |-> literal("0.25"),
            amplitude |-> 9, phase |-> 314],
           [x |-> literal("40"), y |-> literal("90"), freq |-> literal("0.18"),
            amplitude |-> 7, phase |-> 471] >>,
     time |-> 0,
     color_shift |-> 0]
SineWaveEffect_reset(e) == [e EXCEPT !.time = 0, !.color_shift = 0]
SineWaveEffect_update(e) ==
    LET t == e.time + 8
    IN  [e EXCEPT !.time = t,
                  !.color_shift = @ + 1,
                  !.wave_sources =
                      [i \in DOMAIN @ |->
                          [@[i] EXCEPT
                              !.x = computed("center_x + radius * cos(angle)", t),
                              !.y = computed("center_y + radius * sin(angle)", t),
                              !.freq = computed("base_freq + 0.05 * sin(time * 0.4 + i)", t)]]]

\* ------------------------------------------------------------------------
\* What the pixel loop of update() reads: two objects of one class whose
\* values here agree write the same frame
\* ------------------------------------------------------------------------
Generators == {"PlasmaField", "Kaleidoscope", "Mandelbrot", "PlasmaEffect",
               "SpiralEffect", "JuliaFractalEffect", "SineWaveEffect"}

Generator_init(name) ==
    CASE name \in {"PlasmaField", "Kaleidoscope", "Mandelbrot"} -> Effect_init(name)
      [] name \in {"PlasmaEffect", "SpiralEffect"} -> ManagerEffect_init(name)
      [] name = "JuliaFractalEffect" -> JuliaFractalEffect_init
      [] name = "SineWaveEffect" -> SineWaveEffect_init

Generator_reset(name, e) ==
    CASE name \in {"PlasmaField", "Kaleidoscope", "Mandelbrot"} -> Effect_reset(name, e)
      [] name \in {"PlasmaEffect", "SpiralEffect"} -> ManagerEffect_reset(name, e)
      [] name = "JuliaFractalEffect" -> JuliaFractalEffect_reset(e)
      [] name = "SineWaveEffect" -> SineWaveEffect_reset(e)

Generator_update(name, e) ==
    CASE name \in {"PlasmaField", "Kaleidoscope", "Mandelbrot"} -> Effect_update(name, e)
      [] name \in {"PlasmaEffect", "SpiralEffect"} -> ManagerEffect_update(name, e)
      [] name = "JuliaFractalEffect" -> JuliaFractalEffect_update(e)
      [] name = "SineWaveEffect" -> SineWaveEffect_update(e)

Frame(name, e) ==
    CASE name = "PlasmaField" -> <<e.time>>
      [] name = "Kaleidoscope" -> <<e.time, e.color_shift>>
      [] name = "Mandelbrot" -> <<e.zoom, e.center_x, e.center_y, e.color_offset>>
      [] name = "PlasmaEffect" -> <<e.time>>
      [] name = "SpiralEffect" -> <<e.time, e.rotation>>
      [] name = "JuliaFractalEffect" -> <<e.zoom, e.c_real, e.c_imag, e.color_offset>>
      [] name = "SineWaveEffect" -> <<e.wave_sources, e.time, e.color_shift>>

\* ------------------------------------------------------------------------
\* FireEffect, on a grid of fire_width x fire_height cells
\* ------------------------------------------------------------------------
fire_width == 3
fire_height == 3
max_heat == 31

\* The random source.  One update() draws from one stream, picked by seed;
\* every call of random.randint in the pass has its own place k in the stream.
NumSeeds == 4
Seeds == 0..(NumSeeds - 1)
Rand(seed, k) == ((seed + 1) * (2 * k + 1) * 37 + k * k * 11 + seed * seed * 5) % 97
randint(seed, k, a, b) == a + (Rand(seed, k) % (b - a + 1))

\* _init_fire_source() writing 32, one above the last palette index
FireEffect_init_fire_source_hot(buf) ==
    [buf EXCEPT ![fire_height - 1] = [x \in 0..(fire_width - 1) |-> max_heat + 1]]

\* _init_fire_source()
FireEffect_init_fire_source(buf) ==
    [buf EXCEPT ![fire_height - 1] = [x \in 0..(fire_width - 1) |-> max_heat]]

\* __init__: the buffers are zeroed, the source row is lit, then reset()
FireEffect_init ==
    [fire_buffer |->
        FireEffect_init_fire_source(
            [y \in 0..(fire_height - 1) |-> [x \in 0..(fire_width - 1) |-> 0]]),
     bitmap |-> [y \in 0..(fire_height - 1) |-> [x \in 0..(fire_width - 1) |-> 0]],
     time |-> 0]

\* reset()
FireEffect_reset(f) ==
    [f EXCEPT !.time = 0,
              !.fire_buffer = FireEffect_init_fire_source(@)]

\* the cell (nx, ny) as the sampling loop of _update_fire_simulation sees it
in_grid(nx, ny) == 0 <= nx /\ nx < fire_width /\ 0 <= ny /\ ny < fire_height
heat_at(buf, nx, ny) == IF in_grid(nx, ny) THEN buf[ny][nx] ELSE 0
one_if(nx, ny) == IF in_grid(nx, ny) THEN 1 ELSE 0

\* a cell that takes the largest heat it samples, without average or cooling
fire_cell_hottest(buf, x, y, seed) ==
    LET sampled == {heat_at(buf, x + dx, y + dy) : dx \in {-1, 0, 1}, dy \in {0, 1}}
    IN  CHOOSE h \in sampled : \A g \in sampled : g <= h

\* the new heat of cell (x, y): dx in [-1, 0, 1], dy in [0, 1]
fire_cell(buf, x, y, seed) ==
    LET heat_sum == heat_at(buf, x - 1, y) + heat_at(buf, x - 1, y + 1)
                  + heat_at(buf, x, y) + heat_at(buf, x, y + 1)
                  + heat_at(buf, x + 1, y) + heat_at(buf, x + 1, y + 1)
        heat_count == one_if(x - 1, y) + one_if(x - 1, y + 1)
                    + one_if(x, y) + one_if(x, y + 1)
                    + one_if(x + 1, y) + one_if(x + 1, y + 1)
        k == 3 * (y * fire_width + x)
        cooling == randint(seed, k, 1, 3)
        \* max(0, int(heat_sum / heat_count - cooling))
        cooled == IF heat_sum - cooling * heat_count > 0
                  THEN (heat_sum - cooling * heat_count) \div heat_count
                  ELSE 0
        flicker == randint(seed, k + 1, 0, 10) < 3
        extra == randint(seed, k + 2, 0, 2)
        new_heat == IF flicker
                    THEN (IF cooled - extra > 0 THEN cooled - extra ELSE 0)
                    ELSE cooled
    IN  IF heat_count > 0
        THEN (IF new_heat < max_heat THEN new_heat ELSE max_heat)
        ELSE 0

\* the pass over the cells above the source row, in place: the n-th cell
\* visited is in row fire_height - 2 - n \div fire_width, rows bottom-up and
\* x left to right
RECURSIVE fire_pass(_, _, _)
fire_pass(buf, n, seed) ==
    IF n >= fire_width * (fire_height - 1)
    THEN buf
    ELSE LET y == fire_height - 2 - (n \div fire_width)
             x == n % fire_width
         IN  fire_pass([buf EXCEPT ![y][x] = fire_cell(buf, x, y, seed)], n + 1, seed)

\* the refresh of the source row: max(20, min(31, 28 + randint(-3, 3)))
fire_source(buf, seed) ==
    [buf EXCEPT ![fire_height - 1] =
        [x \in 0..(fire_width - 1) |->
            LET base_heat == 28 + randint(seed, 3 * fire_width * fire_height + x, -3, 3)
                capped == IF base_heat < max_heat THEN base_heat ELSE max_heat
            IN  IF capped > 20 THEN capped ELSE 20]]

\* _update_fire_simulation()
FireEffect_update_fire_simulation(buf, seed) ==
    fire_source(fire_pass(buf, 0, seed), seed)

\* update(): the simulation, then the copy of the buffer to the bitmap
FireEffect_update(f, seed) ==
    LET buf == FireEffect_update_fire_simulation(f.fire_buffer, seed)
    IN  [f EXCEPT !.time = @ + 1,
                  !.fire_buffer = buf,
                  !.bitmap = buf]

\* ------------------------------------------------------------------------
\* Floats of the pixel and palette arithmetic, in units of 1/1000, and the
\* functions of the math module on them
\* ------------------------------------------------------------------------
pi == 3142

\* int(): truncation toward zero of a value in 1/1000
int(v) == IF v >= 0 THEN v \div 1000 ELSE -((-v) \div 1000)

\* max(lo, min(hi, v))
clamp(lo, hi, v) == IF v < lo THEN lo ELSE IF v > hi THEN hi ELSE v

abs(v) == IF v < 0 THEN -v ELSE v

\* math.sin: 16 h (pi - h) / (5 pi^2 - 4 h (pi - h)) on the half period h,
\* within 0.002 of the sine and inside [-1, 1]
sin(x) ==
    LET a == x % (2 * pi)
        h == IF a >= pi THEN a - pi ELSE a
        p == h * (pi - h)
        v == clamp(0, 1000, (16 * p) \div (49348 - ((4 * p) \div 1000)))
    IN  IF a >= pi THEN -v ELSE v

\* math.cos
cos(x) == sin(x + 1571)

\* math.sqrt of an integer n, result in 1/1000: the largest r / 10 with
\* r * r <= 100 n, found by bisection
RECURSIVE sqrt_between(_, _, _)
sqrt_between(n, lo, hi) ==
    IF hi - lo <= 1
    THEN lo
    ELSE LET mid == (lo + hi) \div 2
         IN  IF mid * mid <= n THEN sqrt_between(n, mid, hi) ELSE sqrt_between(n, lo, mid)
sqrt(n) == 100 * sqrt_between(100 * n, 0, 4096)

\* math.atan2 of two integers, result in 1/1000: on the first octant
\* atan(z) = z (pi / 4 + 0.273 (1 - z)), the other octants by symmetry
atan_unit(z) == (z * (785 + (273 * (1000 - z)) \div 1000)) \div 1000
atan2(dy, dx) ==
    LET ax == abs(dx)
        ay == abs(dy)
        a == IF ax = 0 /\ ay = 0 THEN 0
             ELSE IF ay <= ax THEN atan_unit((1000 * ay) \div ax)
             ELSE 1571 - atan_unit((1000 * ax) \div ay)
        b == IF dx < 0 THEN pi - a ELSE a
    IN  IF dy < 0 THEN -b ELSE b

\* ------------------------------------------------------------------------
\* Palettes: the entry that the loop of each _init_*palette writes at index
\* i, as <<r, g, b>>
\* ------------------------------------------------------------------------

\* int(127 + amplitude * math.sin(angle))
wave_channel(amplitude, angle) == int(127000 + amplitude * sin(angle))

\* the three channels of a rainbow: phase shifts 0, 2.094 and 4.188
rainbow(amplitude, angle) ==
    << wave_channel(amplitude, angle),
       wave_channel(amplitude, angle + 2094),
       wave_channel(amplitude, angle + 4188) >>

\* r = max(0, min(255, r)), and the same for g and b
clamp_rgb(c) == << clamp(0, 255, c[1]), clamp(0, 255, c[2]), clamp(0, 255, c[3]) >>

\* max(r, g, b)
max_val(c) ==
    LET m == IF c[1] > c[2] THEN c[1] ELSE c[2]
    IN  IF m > c[3] THEN m ELSE c[3]

\* the saturation boost: int(r * (255 / max_val) * tenths / 10) on each channel
boost(c, tenths) ==
    LET m == max_val(c)
    IN  IF m > 0
        THEN << (c[1] * 255 * tenths) \div (10 * m),
                (c[2] * 255 * tenths) \div (10 * m),
                (c[3] * 255 * tenths) \div (10 * m) >>
        ELSE c

\* PlasmaField._init_plasma_palette
PlasmaField_init_plasma_palette(i) ==
    clamp_rgb(rainbow(127, (i * 2 * pi) \div 255))

\* Kaleidoscope._init_kaleidoscope_palette
Kaleidoscope_init_kaleidoscope_palette(i) ==
    LET angle == (i * 4 * pi) \div 255
        c == << wave_channel(127, (angle * 13) \div 10),
                wave_channel(127, (angle * 8) \div 10 + 1571),
                wave_channel(127, (angle * 17) \div 10 + pi) >>
    IN  clamp_rgb(boost(c, 8))

\* Mandelbrot._init_mandelbrot_palette
Mandelbrot_init_mandelbrot_palette(i) ==
    IF i = 0
    THEN <<0, 0, 0>>
    ELSE LET t == (i * 1000) \div 255
             c == rainbow(127, (t * 4 * pi) \div 1000)
             r == int(c[1] * (800 + (4 * sin((t * 8 * pi) \div 1000)) \div 10))
             g == int(c[2] * (800 + (4 * sin((t * 6 * pi) \div 1000)) \div 10))
             b == int(c[3] * (800 + (4 * sin((t * 10 * pi) \div 1000)) \div 10))
         IN  clamp_rgb(<<r, g, b>>)

\* PlasmaEffect._init_palette with an amplitude of 129 in place of 127
PlasmaEffect_init_palette_wide(i) ==
    rainbow(129, (i * 2 * pi) \div 63)

\* PlasmaEffect._init_palette (no clamp)
PlasmaEffect_init_palette(i) ==
    rainbow(127, (i * 2 * pi) \div 63)

\* SpiralEffect._init_palette
SpiralEffect_init_palette(i) ==
    LET t == (i * 1000) \div 31
        r == int(50000 + (205 * t * t) \div 1000)
        g == int(20000 + 100 * sin((t * pi) \div 1000))
        b == int(255000 - 100 * t)
    IN  clamp_rgb(<<r, g, b>>)

\* MatrixEffect._init_palette (no clamp)
MatrixEffect_init_palette(i) ==
    LET intensity == (i * 1000) \div 15
    IN  << 0, int(intensity * 255), int(intensity * 50) >>

\* ColorMatrixEffect.colors, the list the drops pick their colour from
ColorMatrixEffect_colors ==
    << <<0, 255, 0>>, <<0, 255, 255>>, <<255, 0, 255>>, <<255, 255, 0>>,
       <<255, 0, 0>>, <<0, 0, 255>>, <<255, 128, 0>>, <<128, 0, 255>> >>

\* JuliaFractalEffect._init_palette
JuliaFractalEffect_init_palette(i) ==
    IF i = 0
    THEN <<0, 0, 0>>
    ELSE LET t == (i * 1000) \div 63
             r == wave_channel(127, (t * 6 * pi) \div 1000)
             g == wave_channel(127, (t * 4 * pi) \div 1000 + 2000)
             b == wave_channel(127, (t * 8 * pi) \div 1000 + 4000)
             intensity == 700 + (3 * sin((t * 12 * pi) \div 1000)) \div 10
         IN  clamp_rgb(<< int(r * intensity), int(g * intensity), int(b * intensity) >>)

\* the colour bands of FireEffect._init_fire_palette
fire_bands(intensity) ==
    IF intensity < 300
    THEN << int(((intensity * 1000) \div 300) * 128), 0, 0 >>
    ELSE IF intensity < 600
    THEN << int(128000 + (((intensity - 300) * 1000) \div 300) * 127), 0, 0 >>
    ELSE IF intensity < 800
    THEN << 255, int((((intensity - 600) * 1000) \div 200) * 165), 0 >>
    ELSE IF intensity < 950
    THEN LET t == ((intensity - 800) * 1000) \div 150
         IN  << 255, int(165000 + t * 90), int(t * 100) >>
    ELSE LET t == ((intensity - 950) * 1000) \div 50
         IN  << 255, 255, int(100000 + t * 155) >>

\* FireEffect._init_fire_palette with intensity = i / 31.0 + 0.1
FireEffect_init_fire_palette_glow(i) ==
    clamp_rgb(fire_bands((i * 1000) \div 31 + 100))

\* FireEffect._init_fire_palette
FireEffect_init_fire_palette(i) ==
    clamp_rgb(fire_bands((i * 1000) \div 31))

\* StarfieldEffect._init_star_palette (no clamp)
StarfieldEffect_init_star_palette(i) ==
    LET intensity == (i * 1000) \div 15
    IN  IF i = 0
        THEN <<0, 0, 0>>
        ELSE IF intensity < 300
        THEN << int(intensity * 100), int(intensity * 100), int(intensity * 255) >>
        ELSE IF intensity < 700
        THEN << int(intensity * 255), int(intensity * 255), int(intensity * 255) >>
        ELSE << 255, 255, 255 >>

\* SineWaveEffect._init_wave_palette
SineWaveEffect_init_wave_palette(i) ==
    LET t == (i * 1000) \div 63
        c == IF t < 200
             THEN << 0, int(t * 5 * 255), 255 >>
             ELSE IF t < 400
             THEN << 0, 255, int(255 * (1000 - ((t - 200) * 1000) \div 200)) >>
             ELSE IF t < 600
             THEN << int((((t - 400) * 1000) \div 200) * 255), 255, 0 >>
             ELSE IF t < 800
             THEN << 255, int(255 * (1000 - (((t - 600) * 1000) \div 200) \div 2)), 0 >>
             ELSE LET s == ((t - 800) * 1000) \div 200
                  IN  << 255, int(128000 + s * 127), int(s * 255) >>
    IN  clamp_rgb(c)

\* StreamersEffect._init_streamer_palette
StreamersEffect_init_streamer_palette(i) ==
    IF i = 0
    THEN <<0, 0, 0>>
    ELSE LET t == ((i - 1) * 1000) \div 30
         IN  clamp_rgb(boost(rainbow(127, (t * 2 * pi) \div 1000), 9))

\* the classes that build a palette, and displayio.Palette(n) of each
PaletteOwners ==
    {"PlasmaField", "Kaleidoscope", "Mandelbrot", "PlasmaEffect", "SpiralEffect",
     "MatrixEffect", "ColorMatrixEffect", "JuliaFractalEffect", "FireEffect",
     "StarfieldEffect", "SineWaveEffect", "StreamersEffect"}

palette_size(owner) ==
    CASE owner \in {"PlasmaField", "Kaleidoscope", "Mandelbrot"} -> 256
      [] owner \in {"PlasmaEffect", "JuliaFractalEffect", "SineWaveEffect"} -> 64
      [] owner \in {"SpiralEffect", "FireEffect", "StreamersEffect"} -> 32
      [] owner \in {"MatrixEffect", "StarfieldEffect"} -> 16
      [] owner = "ColorMatrixEffect" -> Len(ColorMatrixEffect_colors)

palette_entry(owner, i) ==
    CASE owner = "PlasmaField" -> PlasmaField_init_plasma_palette(i)
      [] owner = "Kaleidoscope" -> Kaleidoscope_init_kaleidoscope_palette(i)
      [] owner = "Mandelbrot" -> Mandelbrot_init_mandelbrot_palette(i)
      [] owner = "PlasmaEffect" -> PlasmaEffect_init_palette(i)
      [] owner = "SpiralEffect" -> SpiralEffect_init_palette(i)
      [] owner = "MatrixEffect" -> MatrixEffect_init_palette(i)
      [] owner = "ColorMatrixEffect" -> ColorMatrixEffect_colors[i + 1]
      [] owner = "JuliaFractalEffect" -> JuliaFractalEffect_init_palette(i)
      [] owner = "FireEffect" -> FireEffect_init_fire_palette(i)
      [] owner = "StarfieldEffect" -> StarfieldEffect_init_star_palette(i)
      [] owner = "SineWaveEffect" -> SineWaveEffect_init_wave_palette(i)
      [] owner = "StreamersEffect" -> StreamersEffect_init_streamer_palette(i)

\* ------------------------------------------------------------------------
\* The escape-time loops, on coordinates in 1/1000
\* ------------------------------------------------------------------------
max_iterations == 32

\* the loop of _mandelbrot_iteration from pass i on, with z = (x, y)
RECURSIVE mandelbrot_loop(_, _, _, _, _, _)
mandelbrot_loop(x, y, cx, cy, i, limit) ==
    IF i >= limit
    THEN 0
    ELSE IF x * x + y * y > 4000000
    THEN i
    ELSE mandelbrot_loop((x * x - y * y) \div 1000 + cx,
                         (2 * x * y) \div 1000 + cy,
                         cx, cy, i + 1, limit)

\* _mandelbrot_iteration with z starting at c in place of 0
Mandelbrot_mandelbrot_iteration_from_c(cx, cy, limit) ==
    mandelbrot_loop(cx, cy, cx, cy, 0, limit)

\* Mandelbrot._mandelbrot_iteration(cx, cy) with self.max_iterations = limit
Mandelbrot_mandelbrot_iteration(cx, cy, limit) ==
    mandelbrot_loop(0, 0, cx, cy, 0, limit)

\* ------------------------------------------------------------------------
\* The bitmaps and the pixel loops of update()
\* ------------------------------------------------------------------------
display_width == 320
display_height == 240

\* The pixel loops are followed on the coordinates that are multiples of
\* SampleStep and on the last two of each axis.
SampleStep == 40
sampled(n, size) == n % SampleStep = 0 \/ n >= size - 2
\* range(size) and range(0, size, 2), sampled
loop_range(size) == {n \in 0..(size - 1) : sampled(n, size)}
loop_range_by_2(size) == {n \in 0..(size - 1) : n % 2 = 0 /\ sampled(n, size)}

\* one assignment self.bitmap[x, y] = value; by is the number of the star or
\* streamer it draws, 0 in a loop over the pixels
write(x, y, value, by) == [x |-> x, y |-> y, value |-> value, by |-> by]

\* the block without the cell at (x + 1, y + 1)
block_2x2_no_diagonal(x, y, value, width, height) ==
    {write(x, y, value, 0)}
    \cup (IF x + 1 < width THEN {write(x + 1, y, value, 0)} ELSE {})
    \cup (IF y + 1 < height THEN {write(x, y + 1, value, 0)} ELSE {})

\* the 2x2 block that the fractal loops fill from (x, y)
block_2x2(x, y, value, width, height) ==
    {write(x, y, value, 0)}
    \cup (IF x + 1 < width THEN {write(x + 1, y, value, 0)} ELSE {})
    \cup (IF y + 1 < height THEN {write(x, y + 1, value, 0)} ELSE {})
    \cup (IF y + 1 < height /\ x + 1 < width THEN {write(x + 1, y + 1, value, 0)} ELSE {})

\* PlasmaField.update: color_index of pixel (x, y); time counts 1/100
PlasmaField_color_index(e, x, y) ==
    LET t == e.time * 10
        val1 == sin((x * 1000 + t * 50) \div 16)
        val2 == sin((y * 1000 + t * 30) \div 16)
        val3 == sin(((x + y) * 1000 + t * 40) \div 16)
        dx == x - display_width \div 2
        dy == y - display_height \div 2
        val4 == sin(sqrt(dx * dx + dy * dy) \div 16 + t * 20)
        plasma_value == (val1 + val2 + val3 + val4) \div 4
    IN  clamp(0, 255, int(((plasma_value + 1000) * 1275) \div 10))

PlasmaField_writes(e) ==
    {write(x, y, PlasmaField_color_index(e, x, y), 0) :
        x \in loop_range(display_width), y \in loop_range(display_height)}

\* Kaleidoscope._get_kaleidoscope_value; time counts 1/100
Kaleidoscope_get_kaleidoscope_value(e, x, y) ==
    LET t == e.time * 10
        dx == x - display_width \div 2
        dy == y - display_height \div 2
        radius == sqrt(dx * dx + dy * dy)
        angle == atan2(dy, dx) + t
        segment_angle == (2 * pi) \div 6
        segment_num == (angle \div segment_angle) % 12
        angle_in_segment == IF segment_num % 2 = 1
                            THEN segment_angle - (angle % segment_angle)
                            ELSE angle % segment_angle
        mirrored_x == (radius * cos(angle_in_segment)) \div 1000
        mirrored_y == (radius * sin(angle_in_segment)) \div 1000
        pattern1 == sin(mirrored_x \div 10 + t * 2)
        pattern2 == cos((mirrored_y * 8) \div 100 + (t * 15) \div 10)
        pattern3 == sin(((mirrored_x + mirrored_y) * 6) \div 100 + t)
        pattern4 == cos(radius \div 20 + (t * 8) \div 10)
        combined == (pattern1 + pattern2 + pattern3 + pattern4) \div 4
        radial == sin(radius \div 50 + t \div 2)
    IN  (combined + radial) \div 2

\* Kaleidoscope.update: color_index of pixel (x, y); color_shift counts 1/2
Kaleidoscope_color_index(e, x, y) ==
    LET color_base == ((Kaleidoscope_get_kaleidoscope_value(e, x, y) + 1000) * 1275) \div 10
    IN  clamp(0, 255, int((color_base + e.color_shift * 500) % 256000))

Kaleidoscope_writes(e) ==
    {write(x, y, Kaleidoscope_color_index(e, x, y), 0) :
        x \in loop_range(display_width), y \in loop_range(display_height)}

\* Mandelbrot._screen_to_complex, as <<cx, cy>>; zoom counts 1/10000 and the
\* centre 1/1000000
Mandelbrot_screen_to_complex(e, screen_x, screen_y) ==
    LET plane_width == 40000000 \div e.zoom
        plane_height == (plane_width * display_height) \div display_width
    IN  << e.center_x \div 1000
             + (((screen_x * 1000) \div display_width - 500) * plane_width) \div 1000,
           e.center_y \div 1000
             + (((screen_y * 1000) \div display_height - 500) * plane_height) \div 1000 >>

\* the count that _mandelbrot_iteration returns for pixel (x, y)
Mandelbrot_iterations(e, x, y) ==
    LET c == Mandelbrot_screen_to_complex(e, x, y)
    IN  Mandelbrot_mandelbrot_iteration(c[1], c[2], max_iterations)

\* Mandelbrot.update: color_index of pixel (x, y); color_offset counts 1
Mandelbrot_color_index(e, x, y) ==
    LET iterations == Mandelbrot_iterations(e, x, y)
    IN  IF iterations = 0 THEN 0 ELSE ((iterations + e.color_offset) % 255) + 1

Mandelbrot_writes(e) ==
    UNION {block_2x2(x, y, Mandelbrot_color_index(e, x, y), display_width, display_height) :
              x \in loop_range_by_2(display_width), y \in loop_range_by_2(display_height)}

\* the bitmap of the effects of pyportal_8effects_stable.py: width // 2 by
\* height // 2
half_width == display_width \div 2
half_height == display_height \div 2

\* PlasmaEffect.update: color_idx of pixel (x, y); time counts 1/10
PlasmaEffect_color_idx(e, x, y) ==
    LET t == e.time * 100
        val == sin(x * 200 + t) + sin(y * 150 + (t * 8) \div 10)
    IN  int(((val + 2000) * 155) \div 10) % 64

PlasmaEffect_writes(e) ==
    {write(x, y, PlasmaEffect_color_idx(e, x, y), 0) :
        x \in loop_range(half_width), y \in loop_range(half_height)}

\* SpiralEffect.update: color_idx of pixel (x, y); time and rotation count 1/100
SpiralEffect_color_idx(e, x, y) ==
    LET t == e.time * 10
        dx == x - half_width \div 2
        dy == y - half_height \div 2
        distance == sqrt(dx * dx + dy * dy)
        angle == atan2(dy, dx)
        spiral_value == sin((distance * 3) \div 10 - t * 3 + angle * 2 + e.rotation * 10)
        radial == cos(distance \div 10 + t)
        combined == (spiral_value + radial) \div 2
    IN  int(((combined + 1000) * 155) \div 10) % 32

SpiralEffect_writes(e) ==
    {write(x, y, SpiralEffect_color_idx(e, x, y), 0) :
        x \in loop_range(half_width), y \in loop_range(half_height)}

\* JuliaFractalEffect: the values update() computes from time (1/20) before
\* its pixel loop
julia_max_iterations == 20
JuliaFractalEffect_c_real(e) == -400 + (3 * sin((e.time * 50 * 5) \div 10)) \div 10
JuliaFractalEffect_c_imag(e) == 600 + (2 * cos((e.time * 50 * 7) \div 10)) \div 10
JuliaFractalEffect_zoom(e) == 1500 + (3 * sin((e.time * 50 * 3) \div 10)) \div 10

\* the point of the plane of pixel (x, y), as <<zx, zy>>: center_x = -0.7,
\* center_y = 0.0
JuliaFractalEffect_point(e, x, y) ==
    << (((x * 1000) \div half_width - 500) * 4000) \div JuliaFractalEffect_zoom(e) - 700,
       (((y * 1000) \div half_height - 500) * 4000) \div JuliaFractalEffect_zoom(e) >>

\* the loop of _julia_iteration from pass i on
RECURSIVE julia_loop(_, _, _, _, _, _)
julia_loop(zx, zy, c_real, c_imag, i, limit) ==
    IF i >= limit
    THEN 0
    ELSE IF zx * zx + zy * zy > 4000000
    THEN i
    ELSE julia_loop((zx * zx - zy * zy) \div 1000 + c_real,
                    (2 * zx * zy) \div 1000 + c_imag,
                    c_real, c_imag, i + 1, limit)

\* JuliaFractalEffect._julia_iteration(x, y)
JuliaFractalEffect_julia_iteration(e, x, y) ==
    LET z == JuliaFractalEffect_point(e, x, y)
    IN  julia_loop(z[1], z[2], JuliaFractalEffect_c_real(e), JuliaFractalEffect_c_imag(e),
                   0, julia_max_iterations)

\* JuliaFractalEffect.update: color_index of pixel (x, y); color_offset counts 1
JuliaFractalEffect_color_index(e, x, y) ==
    LET iterations == JuliaFractalEffect_julia_iteration(e, x, y)
    IN  IF iterations = 0 THEN 0 ELSE ((iterations + e.color_offset) % 63) + 1

JuliaFractalEffect_writes(e) ==
    UNION {block_2x2(x, y, JuliaFractalEffect_color_index(e, x, y), half_width, half_height) :
              x \in loop_range_by_2(half_width), y \in loop_range_by_2(half_height)}

\* SineWaveEffect: the position and frequency update() gives source i (0..3)
\* before its pixel loop; time counts 1/100
SineWaveEffect_source(e, i) ==
    LET t == e.time * 10
        angle == (t * 3) \div 10 + i * 1570
        radius == 20000 + 15 * sin((t * 2) \div 10 + i * 1000)
    IN  [x |-> (half_width \div 2) * 1000 + (radius * cos(angle)) \div 1000,
         y |-> (half_height \div 2) * 1000 + (radius * sin(angle)) \div 1000,
         freq |-> 100 + i * 50 + (5 * sin((t * 4) \div 10 + i * 1000)) \div 100,
         amplitude |-> e.wave_sources[i + 1].amplitude * 100,
         phase |-> e.wave_sources[i + 1].phase * 10]

\* the term of source i in _calculate_wave_interference: distances in 1/10
SineWaveEffect_wave(e, i, x, y) ==
    LET source == SineWaveEffect_source(e, i)
        dx == (x * 1000 - source.x) \div 100
        dy == (y * 1000 - source.y) \div 100
        distance == 100 * sqrt_between(dx * dx + dy * dy, 0, 4096)
        wave_value == (source.amplitude
                         * sin((source.freq * distance) \div 1000 + source.phase
                               + e.time * 10 * 2)) \div 1000
        attenuation == 1000000 \div (1000 + distance \div 100)
    IN  (wave_value * attenuation) \div 1000

\* SineWaveEffect._calculate_wave_interference(x, y)
SineWaveEffect_calculate_wave_interference(e, x, y) ==
    SineWaveEffect_wave(e, 0, x, y) + SineWaveEffect_wave(e, 1, x, y)
  + SineWaveEffect_wave(e, 2, x, y) + SineWaveEffect_wave(e, 3, x, y)

\* SineWaveEffect.update: color_index of pixel (x, y); color_shift counts 1/2
SineWaveEffect_color_index(e, x, y) ==
    LET color_value == (SineWaveEffect_calculate_wave_interference(e, x, y) + 2000) \div 4
    IN  clamp(0, 63, int((color_value * 63 + e.color_shift * 500) % 64000))

SineWaveEffect_writes(e) ==
    {write(x, y, SineWaveEffect_color_index(e, x, y), 0) :
        x \in loop_range(half_width), y \in loop_range(half_height)}

\* ------------------------------------------------------------------------
\* The effects that draw particles: MatrixEffect, StarfieldEffect,
\* StreamersEffect.  A constructor, a reset() or an update() draws from one
\* random stream, picked by seed; each call of the random module in it has
\* its own place k in the stream.
\* ------------------------------------------------------------------------

\* random.uniform(a, b), a and b in 1/1000
uniform(seed, k, a, b) == a + (Rand(seed, k) * (b - a)) \div 96
\* random.choice(seq)
choice(seed, k, seq) == seq[1 + (Rand(seed, k) % Len(seq))]

\* MatrixEffect: columns of the grid followed (20 in the program), its rows;
\* drop_positions counts 1/10, time 1/10
matrix_columns == 3
matrix_rows == 15

MatrixEffect_init(seed) ==
    [drop_positions |-> [col \in 0..(matrix_columns - 1) |->
                            10 * randint(seed, 3 * col, -10, matrix_rows)],
     drop_speeds |-> [col \in 0..(matrix_columns - 1) |->
                            choice(seed, 3 * col + 1, <<1, 2, 3>>)],
     drop_active |-> [col \in 0..(matrix_columns - 1) |->
                            choice(seed, 3 * col + 2, <<TRUE, FALSE>>)],
     time |-> 0]

MatrixEffect_reset(e) == [e EXCEPT !.time = 0]

\* int() of a position in 1/10
int_tenths(v) == IF v >= 0 THEN v \div 10 ELSE -((-v) \div 10)

\* the trail of column col: 8 cells up from the drop, those inside the rows
MatrixEffect_trail(e, col) ==
    IF e.drop_active[col]
    THEN {write(col, int_tenths(e.drop_positions[col]) - trail,
                IF trail = 0 THEN 15 ELSE clamp(0, 15, 15 - trail * 2), 0) :
             trail \in {t \in 0..7 :
                           /\ 0 <= int_tenths(e.drop_positions[col]) - t
                           /\ int_tenths(e.drop_positions[col]) - t < matrix_rows}}
    ELSE {}

\* update() of column col in which a column that comes back keeps the
\* position it stopped at
MatrixEffect_drop_resumes(e, col, seed) ==
    LET moved == e.drop_positions[col] + e.drop_speeds[col] * 3
    IN  IF e.drop_active[col]
        THEN IF moved > (matrix_rows + 5) * 10
             THEN [position |-> 10 * randint(seed, 3 * col, -15, -5),
                   speed |-> choice(seed, 3 * col + 1, <<1, 2, 3>>),
                   active |-> choice(seed, 3 * col + 2, <<TRUE, TRUE, TRUE, FALSE>>)]
             ELSE [position |-> moved,
                   speed |-> e.drop_speeds[col],
                   active |-> TRUE]
        ELSE [position |-> e.drop_positions[col],
              speed |-> e.drop_speeds[col],
              active |-> randint(seed, 3 * col, 0, 100) < 5]

\* the new position, speed and activity of column col
MatrixEffect_drop(e, col, seed) ==
    LET moved == e.drop_positions[col] + e.drop_speeds[col] * 3
    IN  IF e.drop_active[col]
        THEN IF moved > (matrix_rows + 5) * 10
             THEN [position |-> 10 * randint(seed, 3 * col, -15, -5),
                   speed |-> choice(seed, 3 * col + 1, <<1, 2, 3>>),
                   active |-> choice(seed, 3 * col + 2, <<TRUE, TRUE, TRUE, FALSE>>)]
             ELSE [position |-> moved,
                   speed |-> e.drop_speeds[col],
                   active |-> TRUE]
        ELSE IF randint(seed, 3 * col, 0, 100) < 5
             THEN [position |-> 10 * randint(seed, 3 * col + 1, -15, -5),
                   speed |-> e.drop_speeds[col],
                   active |-> TRUE]
             ELSE [position |-> e.drop_positions[col],
                   speed |-> e.drop_speeds[col],
                   active |-> FALSE]

MatrixEffect_update(e, seed) ==
    [e EXCEPT !.time = @ + 1,
              !.drop_positions = [col \in DOMAIN @ |-> MatrixEffect_drop(e, col, seed).position],
              !.drop_speeds = [col \in DOMAIN @ |-> MatrixEffect_drop(e, col, seed).speed],
              !.drop_active = [col \in DOMAIN @ |-> MatrixEffect_drop(e, col, seed).active]]

\* n update() calls on e, the random stream moving on by one seed a call
RECURSIVE MatrixEffect_updated_times(_, _, _)
MatrixEffect_updated_times(e, seed, n) ==
    IF n = 0 \/ e.time < 0
    THEN e
    ELSE MatrixEffect_updated_times(MatrixEffect_update(e, (seed + n) % NumSeeds),
                                    seed, n - 1)

\* the writes of update() on the object e it was called on: the clearing of
\* the bitmap, then the trails
MatrixEffect_writes(e) ==
    {write(x, y, 0, 0) : x \in 0..(matrix_columns - 1), y \in 0..(matrix_rows - 1)}
    \cup UNION {MatrixEffect_trail(e, col) : col \in 0..(matrix_columns - 1)}

\* StarfieldEffect: stars followed (150 in the program); x, y, z and speed
\* in 1/1000, time counts 1/10
num_stars == 3
star_center_x == (half_width \div 2) * 1000
star_center_y == (half_height \div 2) * 1000

\* a star at the distance and angle drawn at stream places k and k + 1
new_star(seed, k, max_distance, min_z) ==
    LET angle == uniform(seed, k, 0, 6283)
        distance == uniform(seed, k + 1, 1000, max_distance)
    IN  [x |-> star_center_x + (distance * cos(angle)) \div 1000,
         y |-> star_center_y + (distance * sin(angle)) \div 1000,
         z |-> uniform(seed, k + 2, min_z, 50000),
         brightness |-> randint(seed, k + 3, 5, 15),
         speed |-> uniform(seed, k + 4, 500, 2000)]

\* _init_stars()
StarfieldEffect_init_stars(seed) ==
    [i \in 1..num_stars |-> new_star(seed, 5 * i, 100000, 1000)]

\* _reset_star(star) with z drawn from the whole depth range
StarfieldEffect_reset_star_near(seed, i) ==
    new_star(seed, 5 * i, 5000, 1000)

\* _reset_star(star) for star number i
StarfieldEffect_reset_star(seed, i) ==
    new_star(seed, 5 * i, 5000, 30000)

StarfieldEffect_init(seed) == [stars |-> StarfieldEffect_init_stars(seed), time |-> 0]

StarfieldEffect_reset(e, seed) ==
    [e EXCEPT !.time = 0, !.stars = StarfieldEffect_init_stars(seed)]

\* warp_factor of the update() that raises time to t
warp_factor(t) == 1000 + sin((t * 100 * 3) \div 10) \div 2

\* the star after the move away from the centre
star_moved(star, warp) ==
    LET dx == star.x - star_center_x
        dy == star.y - star_center_y
        pace == (star.speed * warp) \div 1000
    IN  [star EXCEPT !.x = @ + (((dx * 20) \div 1000) * pace) \div 1000,
                     !.y = @ + (((dy * 20) \div 1000) * pace) \div 1000,
                     !.z = @ - pace \div 2]

\* a respawn test that looks at the depth alone
star_gone_depth_only(star) ==
    star.z < 1000

\* the condition under which update() respawns the moved star
star_gone(star) ==
    \/ int(star.x) < 0
    \/ int(star.x) >= half_width
    \/ int(star.y) < 0
    \/ int(star.y) >= half_height
    \/ star.z < 1000

StarfieldEffect_update(e, seed) ==
    LET warp == warp_factor(e.time + 1)
    IN  [e EXCEPT !.time = @ + 1,
                  !.stars = [i \in DOMAIN @ |->
                                IF star_gone(star_moved(@[i], warp))
                                THEN StarfieldEffect_reset_star(seed, i)
                                ELSE star_moved(@[i], warp)]]

\* brightness of a drawn star without the clamp to 1..15
star_brightness_unclamped(star) ==
    LET size_factor == IF 30000000 \div star.z > 100 THEN 30000000 \div star.z ELSE 100
    IN  int(star.brightness * size_factor)

\* brightness of a drawn star
star_brightness(star) ==
    LET size_factor == IF 30000000 \div star.z > 100 THEN 30000000 \div star.z ELSE 100
    IN  clamp(1, 15, int(star.brightness * size_factor))

\* the writes that draw star number i of the object e update() was called on
star_writes(e, i) ==
    LET star == star_moved(e.stars[i], warp_factor(e.time + 1))
        screen_x == int(star.x)
        screen_y == int(star.y)
        brightness == star_brightness(star)
    IN  IF star_gone(star)
        THEN {}
        ELSE {write(screen_x, screen_y, brightness, i)}
             \cup (IF 30000000 \div star.z > 1500
                   THEN (IF screen_x + 1 < half_width
                         THEN {write(screen_x + 1, screen_y, brightness, i)} ELSE {})
                        \cup (IF screen_y + 1 < half_height
                              THEN {write(screen_x, screen_y + 1, brightness, i)} ELSE {})
                        \cup (IF screen_y + 1 < half_height /\ screen_x + 1 < half_width
                              THEN {write(screen_x + 1, screen_y + 1, brightness, i)} ELSE {})
                   ELSE {})

\* the writes of update(): the clearing of the bitmap, then the stars
StarfieldEffect_writes(e) ==
    {write(x, y, 0, 0) : x \in loop_range(half_width), y \in loop_range(half_height)}
    \cup UNION {star_writes(e, i) : i \in 1..num_stars}

\* StreamersEffect: streamers followed (8 in the program); x_start,
\* amplitude, frequency, speed, phase and wave_speed in 1/1000, time counts 1/10
num_streamers == 2

\* the properties update() draws anew when a streamer has left the screen,
\* from the stream places k .. k + 6
streamer_properties(seed, k) ==
    [y_base |-> randint(seed, k, 10, half_height - 10),
     amplitude |-> uniform(seed, k + 1, 5000, 25000),
     frequency |-> uniform(seed, k + 2, 50, 150),
     speed |-> uniform(seed, k + 3, 500, 2000),
     color |-> randint(seed, k + 4, 1, 31),
     thickness |-> randint(seed, k + 5, 1, 3),
     wave_speed |-> uniform(seed, k + 6, 20, 80)]

\* _init_streamers()
StreamersEffect_init_streamers(seed) ==
    [i \in 1..num_streamers |->
        LET p == streamer_properties(seed, 10 * i)
        IN  [x_start |-> 1000 * randint(seed, 10 * i + 7, -20, half_width + 20),
             y_base |-> p.y_base,
             amplitude |-> p.amplitude,
             frequency |-> p.frequency,
             speed |-> p.speed,
             phase |-> uniform(seed, 10 * i + 8, 0, 6280),
             color |-> p.color,
             thickness |-> p.thickness,
             direction |-> choice(seed, 10 * i + 9, <<-1, 1>>),
             wave_speed |-> p.wave_speed]]

StreamersEffect_init(seed) ==
    [streamers |-> StreamersEffect_init_streamers(seed), time |-> 0]

StreamersEffect_reset(e, seed) ==
    [e EXCEPT !.time = 0, !.streamers = StreamersEffect_init_streamers(seed)]

\* streamer number i after the move of update() and, when it has left the
\* screen, the fresh start from the opposite side
streamer_moved(streamer, seed, i) ==
    LET x_start == streamer.x_start + streamer.speed * streamer.direction
        moved_phase == streamer.phase + streamer.wave_speed
        p == streamer_properties(seed, 10 * i)
    IN  IF \/ (streamer.direction > 0 /\ x_start > (half_width + 50) * 1000)
           \/ (streamer.direction < 0 /\ x_start < -50000)
        THEN [x_start |-> IF streamer.direction > 0
                          THEN 1000 * randint(seed, 10 * i + 7, -50, -20)
                          ELSE 1000 * randint(seed, 10 * i + 7, half_width + 20, half_width + 50),
              y_base |-> p.y_base,
              amplitude |-> p.amplitude,
              frequency |-> p.frequency,
              speed |-> p.speed,
              phase |-> moved_phase,
              color |-> p.color,
              thickness |-> p.thickness,
              direction |-> streamer.direction,
              wave_speed |-> p.wave_speed]
        ELSE [streamer EXCEPT !.x_start = x_start, !.phase = moved_phase]

StreamersEffect_update(e, seed) ==
    [e EXCEPT !.time = @ + 1,
              !.streamers = [i \in DOMAIN @ |-> streamer_moved(@[i], seed, i)]]

\* _draw_wavy_streamer: the x of range(start_x, end_x, 2)
streamer_range(streamer) ==
    LET start_x == clamp(-10, half_width + 10, int(streamer.x_start) - 30)
        end_x == clamp(-10, half_width + 10, int(streamer.x_start) + 60)
    IN  {x \in start_x..(end_x - 1) : (x - start_x) % 2 = 0}

\* y of the wave at x
streamer_y(streamer, x) ==
    int(streamer.y_base * 1000
        + (streamer.amplitude
             * sin(((x * 1000 - streamer.x_start) * streamer.frequency) \div 1000
                   + streamer.phase)) \div 1000)

\* the loop drawing at every x of the range
streamer_visible_unchecked(x) == TRUE

\* the condition under which the loop draws at x
streamer_visible(x) == 0 <= x /\ x < half_width

\* the writes of the loop at x for one value of thickness: the point, and
\* the midpoint toward the previous point (drawn two x before, inside the
\* bitmap)
streamer_point_writes(streamer, x, thickness, by) ==
    LET py == streamer_y(streamer, x) + thickness - streamer.thickness \div 2
        prev_x == x - 2
        has_prev == prev_x \in streamer_range(streamer) /\ streamer_visible(prev_x)
        prev_y == streamer_y(streamer, prev_x)
        mid_y == (py + prev_y) \div 2
    IN  IF 0 <= py /\ py < half_height
        THEN {write(x, py, streamer.color, by)}
             \cup (IF /\ has_prev
                      /\ abs(x - prev_x) <= 2
                      /\ abs(py - prev_y) <= 4
                      /\ 0 <= mid_y /\ mid_y < half_height
                      /\ 0 <= prev_x /\ prev_x < half_width
                   THEN {write(prev_x, mid_y, streamer.color, by)}
                   ELSE {})
        ELSE {}

\* _draw_wavy_streamer(streamer) for streamer number by
StreamersEffect_draw_wavy_streamer(streamer, by) ==
    UNION {streamer_point_writes(streamer, x, thickness, by) :
              x \in {c \in streamer_range(streamer) : streamer_visible(c)},
              thickness \in 0..(streamer.thickness - 1)}

\* the writes of update() on the object it leaves: the clearing of the
\* bitmap, then the streamers
StreamersEffect_writes(e) ==
    {write(x, y, 0, 0) : x \in loop_range(half_width), y \in loop_range(half_height)}
    \cup UNION {StreamersEffect_draw_wavy_streamer(e.streamers[i], i) :
                   i \in 1..num_streamers}

\* ------------------------------------------------------------------------
\* ColorMatrixEffect: the drops, the labels and the display group.
\* drop_positions and drop_speeds count 1/10.  A label is the record of its
\* identity (the number of labels attempted before it), column and row; the
\* display group holds identities, active_labels holds identity and
\* _matrix_age.  The character of a label is left out.
\* ------------------------------------------------------------------------
color_matrix_columns == 2
color_matrix_rows == 20
label_max_age == 50

\* the exceptions a step of the try block can raise, and the failures one
\* update() is given: none, label.Label(...) raising in one column, or
\* active_labels.append raising there after group.append
Errors == {"MemoryError", "RuntimeError"}
NoFault == [col |-> -1, place |-> "none", kind |-> "none"]
Faults ==
    {NoFault} \cup
    {[col |-> col, place |-> "Label", kind |-> kind] :
        col \in 0..(color_matrix_columns - 1), kind \in Errors} \cup
    {[col |-> col, place |-> "active_labels.append", kind |-> "MemoryError"] :
        col \in 0..(color_matrix_columns - 1)}

\* an except clause naming MemoryError only
ColorMatrixEffect_caught_memory_only == {"MemoryError"}

\* except (MemoryError, RuntimeError)
ColorMatrixEffect_caught == {"MemoryError", "RuntimeError"}

ColorMatrixEffect_speeds == <<5, 10, 15, 20>>

ColorMatrixEffect_init(seed) ==
    [drop_positions |-> [col \in 0..(color_matrix_columns - 1) |->
                            10 * randint(seed, 6 * col, -20, color_matrix_rows)],
     drop_speeds |-> [col \in 0..(color_matrix_columns - 1) |->
                            choice(seed, 6 * col + 1, ColorMatrixEffect_speeds)],
     drop_active |-> [col \in 0..(color_matrix_columns - 1) |->
                            choice(seed, 6 * col + 2, <<TRUE, FALSE>>)],
     drop_colors |-> [col \in 0..(color_matrix_columns - 1) |->
                            choice(seed, 6 * col + 3, ColorMatrixEffect_colors)],
     active_labels |-> <<>>,
     group |-> <<>>,
     labels_made |-> 0,
     time |-> 0]

group_has(e, id) == \E i \in 1..Len(e.group) : e.group[i] = id

\* reset(): every active label leaves the group, then the list is cleared
ColorMatrixEffect_reset(e) ==
    [e EXCEPT !.time = 0,
              !.group = SelectSeq(e.group,
                            LAMBDA id : \A i \in 1..Len(e.active_labels) :
                                            e.active_labels[i].id # id),
              !.active_labels = <<>>]

\* the first loops of update(): every active label ages by one, and a label
\* older than 50 leaves the group and the list (a label the group does not
\* hold stays in the list: ValueError is passed over)
ColorMatrixEffect_age(e) ==
    LET aged == [i \in 1..Len(e.active_labels) |->
                    [e.active_labels[i] EXCEPT !.age = @ + 1]]
        old(id) == \E i \in 1..Len(aged) :
                      aged[i].id = id /\ aged[i].age > label_max_age
    IN  [e EXCEPT !.time = @ + 1,
                  !.group = SelectSeq(e.group, LAMBDA id : ~old(id)),
                  !.active_labels =
                      SelectSeq(aged, LAMBDA l : ~(l.age > label_max_age
                                                   /\ group_has(e, l.id)))]

\* whether update() adds a character at the drop of column col
ColorMatrixEffect_adds(e, col, seed) ==
    /\ 0 <= int_tenths(e.drop_positions[col])
    /\ int_tenths(e.drop_positions[col]) < color_matrix_rows
    /\ randint(seed, 6 * col, 0, 3) = 0

\* the try block for column col.  s is the call so far: the object, the
\* labels whose creation failed, and the exception leaving update() if any
ColorMatrixEffect_try(s, col, fault) ==
    LET e == s.obj
        id == e.labels_made
        text_label == [id |-> id, col |-> col,
                       row |-> int_tenths(e.drop_positions[col]), age |-> 0]
        made == [e EXCEPT !.labels_made = @ + 1]
        struck == fault.col = col
        leaves == IF fault.kind \in ColorMatrixEffect_caught
                  THEN "none" ELSE fault.kind
    IN  IF struck /\ fault.place = "Label"
        THEN [obj |-> made,
              failed |-> s.failed \cup {[id |-> id, col |-> col]},
              raised |-> leaves]
        ELSE IF struck /\ fault.place = "active_labels.append"
        THEN [obj |-> [made EXCEPT !.group = Append(@, id)],
              failed |-> s.failed,
              raised |-> leaves]
        ELSE [obj |-> [made EXCEPT !.group = Append(@, id),
                                   !.active_labels = Append(@, text_label)],
              failed |-> s.failed,
              raised |-> "none"]

\* the end of the loop body for an active column: the drop moves down and
\* is drawn again above the screen once it is below it
ColorMatrixEffect_move(e, col, seed) ==
    LET moved == e.drop_positions[col] + (e.drop_speeds[col] * 4) \div 10
    IN  IF moved > (color_matrix_rows + 5) * 10
        THEN [e EXCEPT !.drop_positions[col] = 10 * randint(seed, 6 * col + 1, -25, -5),
                       !.drop_speeds[col] = choice(seed, 6 * col + 2, ColorMatrixEffect_speeds),
                       !.drop_colors[col] = choice(seed, 6 * col + 3, ColorMatrixEffect_colors),
                       !.drop_active[col] = choice(seed, 6 * col + 4, <<TRUE, TRUE, FALSE>>)]
        ELSE [e EXCEPT !.drop_positions[col] = moved]

\* the else branch: an inactive column comes back with 3 chances in 151
ColorMatrixEffect_reactivate(e, col, seed) ==
    IF randint(seed, 6 * col, 0, 150) < 3
    THEN [e EXCEPT !.drop_active[col] = TRUE,
                   !.drop_positions[col] = 10 * randint(seed, 6 * col + 1, -25, -5),
                   !.drop_colors[col] = choice(seed, 6 * col + 3, ColorMatrixEffect_colors)]
    ELSE e

\* the loop body for column col
ColorMatrixEffect_column(s, col, seed, fault) ==
    IF s.obj.drop_active[col]
    THEN LET tried == IF ColorMatrixEffect_adds(s.obj, col, seed)
                      THEN ColorMatrixEffect_try(s, col, fault)
                      ELSE s
         IN  IF tried.raised # "none"
             THEN tried
             ELSE [tried EXCEPT !.obj = ColorMatrixEffect_move(tried.obj, col, seed)]
    ELSE [s EXCEPT !.obj = ColorMatrixEffect_reactivate(s.obj, col, seed)]

\* the loop over the columns from col on; an exception ends it
RECURSIVE ColorMatrixEffect_columns(_, _, _, _)
ColorMatrixEffect_columns(s, col, seed, fault) ==
    IF col = color_matrix_columns \/ s.raised # "none"
    THEN s
    ELSE ColorMatrixEffect_columns(ColorMatrixEffect_column(s, col, seed, fault),
                                   col + 1, seed, fault)

\* update()
ColorMatrixEffect_update(e, seed, fault) ==
    ColorMatrixEffect_columns([obj |-> ColorMatrixEffect_age(e),
                               failed |-> {},
                               raised |-> "none"],
                              0, seed, fault)

\* n update() calls on e without a failure, the random stream moving on by
\* one seed a call; time never goes below 0, and testing it makes each step
\* evaluate its object before the next call
RECURSIVE ColorMatrixEffect_updated_times(_, _, _)
ColorMatrixEffect_updated_times(e, seed, n) ==
    IF n = 0 \/ e.time < 0
    THEN e
    ELSE ColorMatrixEffect_updated_times(
             ColorMatrixEffect_update(e, (seed + n) % NumSeeds, NoFault).obj,
             seed, n - 1)

\* ------------------------------------------------------------------------
\* The two programs: a run executes one of them
\* ------------------------------------------------------------------------
Programs == {"screensaver", "manager"}

\* the variables of a part of the model that a specification does not run
sched_idle ==
    /\ program = "none"
    /\ manager = ScreensaverManager_init(0)
    /\ screensaver = PyPortalScreensaver_init(0)
    /\ monotonic = 0
    /\ touch_value = FALSE
    /\ ticks = 0
    /\ last_tick = [n |-> 0, any_touch |-> FALSE]

trial_idle ==
    /\ gen = "none"
    /\ used = <<>>
    /\ fresh = <<>>
    /\ phase = "none"
    /\ frames = [used |-> <<>>, fresh |-> <<>>, warm |-> 0]

fire_idle ==
    /\ fire = FireEffect_init
    /\ fire_log = [op |-> "none", updates |-> 0]

palette_idle == palette = [owner |-> "none", entries |-> <<>>]
escape_idle == escape = [op |-> "none"]
canvas_idle == canvas = [op |-> "none"]
matrix_idle == matrix = [op |-> "none"]
ext_idle == palette_idle /\ escape_idle /\ canvas_idle /\ matrix_idle

Init ==
    /\ program \in Programs
    /\ \E t \in StartTimes :
          /\ monotonic = t
          /\ screensaver = PyPortalScreensaver_init(IF program = "screensaver" THEN t ELSE 0)
          /\ manager = ScreensaverManager_init(IF program = "manager" THEN t ELSE 0)
    /\ touch_value = FALSE
    /\ ticks = 0
    /\ last_tick = [n |-> 0, any_touch |-> FALSE]
    /\ trial_idle
    /\ fire_idle
    /\ ext_idle

\* one iteration of PyPortalScreensaver.run(): update(), then time.sleep(0.01)
Tick ==
    /\ program = "screensaver"
    /\ ticks < MaxTicks
    /\ \E touch \in BOOLEAN, d0 \in TickSteps, d \in ReadSteps :
          LET t0 == monotonic + d0
              t1 == t0 + d
              t2 == t1 + d
              s0 == [screensaver EXCEPT !.trace = <<>>]
              byTouch == touch_accepted(s0, touch, t1)
              s1 == handle_touch(s0, touch, t1, t2)
              byTimer == auto_advance_due(s1, t0)
              t3 == (IF byTouch THEN t2 ELSE t1) + d
          IN  /\ screensaver' = update(screensaver, touch, t0, t1, t2, t3)
              /\ monotonic' = IF byTimer THEN t3 ELSE IF byTouch THEN t2 ELSE t1
              /\ touch_value' = touch
              /\ last_tick' = [n |-> ticks + 1,
                               before |-> screensaver,
                               prev_touch |-> touch_value,
                               touch |-> touch,
                               any_touch |-> last_tick.any_touch \/ touch,
                               t0 |-> t0, t1 |-> t1,
                               by_touch |-> byTouch,
                               by_timer |-> byTimer]
    /\ ticks' = ticks + 1
    /\ UNCHANGED <<program, manager, trial_vars, fire_vars, ext_vars>>

\* one iteration of the loop of main(): manager.update(), then time.sleep(0.1)
\* (the first update() follows the constructor without a sleep)
ManagerTick ==
    /\ program = "manager"
    /\ ticks < MaxTicks
    /\ \E r \in RenderSteps :
          LET t == monotonic + r + (IF ticks = 0 THEN 0 ELSE sleep_time)
          IN  /\ manager' = manager_update(manager, t)
              /\ monotonic' = t
              /\ last_tick' = [n |-> ticks + 1,
                               before |-> manager,
                               any_touch |-> FALSE,
                               t0 |-> t,
                               prev_t0 |-> monotonic,
                               by_timer |-> auto_scroll_due(manager, t)]
    /\ ticks' = ticks + 1
    /\ UNCHANGED <<program, screensaver, touch_value, trial_vars, fire_vars, ext_vars>>

Next == Tick \/ ManagerTick

Spec == Init /\ [][Next]_vars

\* ------------------------------------------------------------------------
\* SpecReset: an effect that is updated, reset and updated again, beside an
\* effect of the same class that is constructed and updated
\* ------------------------------------------------------------------------
InitReset ==
    /\ sched_idle
    /\ fire_idle
    /\ gen \in Generators
    /\ used = Generator_init(gen)
    /\ fresh = Generator_init(gen)
    /\ phase = "warm"
    /\ frames = [used |-> <<>>, fresh |-> <<>>, warm |-> 0]
    /\ ext_idle

\* update() on the object that will be reset
WarmUp ==
    /\ phase = "warm"
    /\ frames.warm < MaxWarm
    /\ used' = Generator_update(gen, used)
    /\ frames' = [frames EXCEPT !.warm = @ + 1]
    /\ UNCHANGED <<gen, fresh, phase, sched_vars, fire_vars, ext_vars>>

\* reset() on it
ResetUsed ==
    /\ phase = "warm"
    /\ used' = Generator_reset(gen, used)
    /\ phase' = "run"
    /\ UNCHANGED <<gen, fresh, frames, sched_vars, fire_vars, ext_vars>>

\* update() on both objects
RunBoth ==
    /\ phase = "run"
    /\ Len(frames.used) < MaxRun
    /\ used' = Generator_update(gen, used)
    /\ fresh' = Generator_update(gen, fresh)
    /\ frames' = [frames EXCEPT !.used = Append(@, Frame(gen, used')),
                                !.fresh = Append(@, Frame(gen, fresh'))]
    /\ UNCHANGED <<gen, phase, sched_vars, fire_vars, ext_vars>>

NextReset == WarmUp \/ ResetUsed \/ RunBoth

SpecReset == InitReset /\ [][NextReset]_vars

\* ------------------------------------------------------------------------
\* SpecFire: FireEffect under update() and reset()
\* ------------------------------------------------------------------------
InitFire ==
    /\ sched_idle
    /\ trial_idle
    /\ fire = FireEffect_init
    /\ fire_log = [op |-> "init", updates |-> 0, before |-> FireEffect_init, seed |-> 0]
    /\ ext_idle

\* update(), its random stream picked by seed
FireUpdate ==
    /\ fire_log.updates < MaxFireUpdates
    /\ \E seed \in Seeds :
          /\ fire' = FireEffect_update(fire, seed)
          /\ fire_log' = [op |-> "update", updates |-> fire_log.updates + 1,
                          before |-> fire, seed |-> seed]
    /\ UNCHANGED <<sched_vars, trial_vars, ext_vars>>

\* reset() (a second reset() in a row changes nothing and is left out)
FireReset ==
    /\ fire_log.op # "reset"
    /\ fire' = FireEffect_reset(fire)
    /\ fire_log' = [fire_log EXCEPT !.op = "reset", !.before = fire]
    /\ UNCHANGED <<sched_vars, trial_vars, ext_vars>>

NextFire == FireUpdate \/ FireReset

SpecFire == InitFire /\ [][NextFire]_vars

\* ------------------------------------------------------------------------
\* SpecPalette: the loop "for i in range(n): self.palette[i] = ..." of the
\* constructor of one class
\* ------------------------------------------------------------------------
InitPalette ==
    /\ sched_idle
    /\ trial_idle
    /\ fire_idle
    /\ escape_idle /\ canvas_idle /\ matrix_idle
    /\ palette \in {[owner |-> o, entries |-> <<>>] : o \in PaletteOwners}

\* one pass of the loop: the entry at index i = Len(entries)
PaletteLoop ==
    /\ Len(palette.entries) < palette_size(palette.owner)
    /\ palette' = [palette EXCEPT
                      !.entries = Append(@, palette_entry(palette.owner, Len(@)))]
    /\ UNCHANGED <<sched_vars, trial_vars, fire_vars, escape, canvas, matrix>>

NextPalette == PaletteLoop

SpecPalette == InitPalette /\ [][NextPalette]_vars

\* ------------------------------------------------------------------------
\* SpecEscape: one call of Mandelbrot._mandelbrot_iteration
\* ------------------------------------------------------------------------
MaxIterations == 4
\* values of self.max_iterations: the small ones and the one of __init__
IterationLimits == (1..MaxIterations) \cup {max_iterations}
\* coordinates of c, in 1/1000
EscapeCoordinates == {-2000, -500, 0, 300, 1000, 2000}

InitEscape ==
    /\ sched_idle
    /\ trial_idle
    /\ fire_idle
    /\ palette_idle /\ canvas_idle /\ matrix_idle
    /\ escape \in {[op |-> "call", cx |-> cx, cy |-> cy, limit |-> n, result |-> 0] :
                      cx \in EscapeCoordinates, cy \in EscapeCoordinates,
                      n \in IterationLimits}

\* the call runs to its return
Iterate ==
    /\ escape.op = "call"
    /\ escape' = [escape EXCEPT
                     !.op = "return",
                     !.result = Mandelbrot_mandelbrot_iteration(escape.cx, escape.cy,
                                                                escape.limit)]
    /\ UNCHANGED <<sched_vars, trial_vars, fire_vars, palette, canvas, matrix>>

NextEscape == Iterate

SpecEscape == InitEscape /\ [][NextEscape]_vars

\* ------------------------------------------------------------------------
\* SpecRender: one effect that draws into a bitmap, under update() and
\* reset()
\* ------------------------------------------------------------------------
MaxFrames == 3
\* update() calls the effect has made when it is taken up (the last is two
\* short of a Mandelbrot zoom cycle)
FrameCounts == {0, 30, 60, 125, zoom_cycle_time - 2}

RenderClasses == Generators \cup {"MatrixEffect", "FireEffect", "StarfieldEffect",
                                  "StreamersEffect"}

\* displayio.Bitmap(width, height, value_count) of each class
bitmap_width(name) ==
    CASE name \in {"PlasmaField", "Kaleidoscope", "Mandelbrot"} -> display_width
      [] name = "MatrixEffect" -> matrix_columns
      [] name = "FireEffect" -> fire_width
      [] OTHER -> half_width

bitmap_height(name) ==
    CASE name \in {"PlasmaField", "Kaleidoscope", "Mandelbrot"} -> display_height
      [] name = "MatrixEffect" -> matrix_rows
      [] name = "FireEffect" -> fire_height
      [] OTHER -> half_height

bitmap_value_count(name) ==
    CASE name \in {"PlasmaField", "Kaleidoscope", "Mandelbrot"} -> 256
      [] name \in {"PlasmaEffect", "JuliaFractalEffect", "SineWaveEffect"} -> 64
      [] name \in {"SpiralEffect", "FireEffect", "StreamersEffect"} -> 32
      [] name \in {"MatrixEffect", "StarfieldEffect"} -> 16

\* the longest chain of calls a recursive operator makes before it returns
\* a value to a caller that goes on from it
RecursionDepth == 100

\* n update() calls on e; time never goes below 0, and testing it makes each
\* step evaluate its object before the next call
RECURSIVE updated_times(_, _, _)
updated_times(name, e, n) ==
    IF n = 0 \/ e.time < 0
    THEN e
    ELSE IF n > RecursionDepth
    THEN updated_times(name, updated_times(name, e, RecursionDepth), n - RecursionDepth)
    ELSE updated_times(name, Generator_update(name, e), n - 1)

Render_init(name, seed, n) ==
    CASE name \in Generators -> updated_times(name, Generator_init(name), n)
      [] name = "MatrixEffect" -> MatrixEffect_updated_times(MatrixEffect_init(seed), seed, n)
      [] name = "FireEffect" -> FireEffect_init
      [] name = "StarfieldEffect" -> StarfieldEffect_init(seed)
      [] name = "StreamersEffect" -> StreamersEffect_init(seed)

Render_reset(name, e, seed) ==
    CASE name \in Generators -> Generator_reset(name, e)
      [] name = "MatrixEffect" -> MatrixEffect_reset(e)
      [] name = "FireEffect" -> FireEffect_reset(e)
      [] name = "StarfieldEffect" -> StarfieldEffect_reset(e, seed)
      [] name = "StreamersEffect" -> StreamersEffect_reset(e, seed)

Render_update(name, e, seed) ==
    CASE name \in Generators -> Generator_update(name, e)
      [] name = "MatrixEffect" -> MatrixEffect_update(e, seed)
      [] name = "FireEffect" -> FireEffect_update(e, seed)
      [] name = "StarfieldEffect" -> StarfieldEffect_update(e, seed)
      [] name = "StreamersEffect" -> StreamersEffect_update(e, seed)

\* the copy of the heat grid to the bitmap
FireEffect_writes(f) ==
    {write(x, y, f.fire_buffer[y][x], 0) : x \in 0..(fire_width - 1), y \in 0..(fire_height - 1)}

\* the assignments to the bitmap that update() makes when it takes the
\* object from e to after
Render_writes(name, e, after) ==
    CASE name = "PlasmaField" -> PlasmaField_writes(after)
      [] name = "Kaleidoscope" -> Kaleidoscope_writes(after)
      [] name = "Mandelbrot" -> Mandelbrot_writes(after)
      [] name = "PlasmaEffect" -> PlasmaEffect_writes(after)
      [] name = "SpiralEffect" -> SpiralEffect_writes(after)
      [] name = "JuliaFractalEffect" -> JuliaFractalEffect_writes(after)
      [] name = "SineWaveEffect" -> SineWaveEffect_writes(after)
      [] name = "MatrixEffect" -> MatrixEffect_writes(e)
      [] name = "FireEffect" -> FireEffect_writes(after)
      [] name = "StarfieldEffect" -> StarfieldEffect_writes(e)
      [] name = "StreamersEffect" -> StreamersEffect_writes(after)

InitRender ==
    /\ sched_idle
    /\ trial_idle
    /\ fire_idle
    /\ palette_idle /\ escape_idle /\ matrix_idle
    /\ \E name \in RenderClasses, seed \in Seeds, n \in FrameCounts :
          /\ name \in Generators \/ n = 0 \/ (name = "MatrixEffect" /\ n <= RecursionDepth)
          /\ name \in Generators \cup {"FireEffect"} => seed = 0
          /\ canvas = [op |-> "init",
                       gen |-> name,
                       obj |-> Render_init(name, seed, n),
                       before |-> Render_init(name, seed, n),
                       writes |-> {},
                       updates |-> 0]

\* update()
RenderUpdate ==
    /\ canvas.updates < MaxFrames
    /\ \E seed \in Seeds :
          LET after == Render_update(canvas.gen, canvas.obj, seed)
          IN  canvas' = [op |-> "update",
                         gen |-> canvas.gen,
                         obj |-> after,
                         before |-> canvas.obj,
                         writes |-> Render_writes(canvas.gen, canvas.obj, after),
                         updates |-> canvas.updates + 1]
    /\ UNCHANGED <<sched_vars, trial_vars, fire_vars, palette, escape, matrix>>

\* reset() (a second reset() in a row is left out)
RenderReset ==
    /\ canvas.op = "update"
    /\ \E seed \in Seeds :
          canvas' = [canvas EXCEPT !.op = "reset",
                                   !.obj = Render_reset(canvas.gen, canvas.obj, seed),
                                   !.before = canvas.obj,
                                   !.writes = {}]
    /\ UNCHANGED <<sched_vars, trial_vars, fire_vars, palette, escape, matrix>>

NextRender == RenderUpdate \/ RenderReset

SpecRender == InitRender /\ [][NextRender]_vars

\* ------------------------------------------------------------------------
\* ColorMatrixEffect alone: update() calls in which one step of one
\* column's try block may raise, and reset() calls
\* ------------------------------------------------------------------------
MaxLabelFrames == 2
LabelFrameCounts == {0, 30, 60}

InitLabels ==
    /\ sched_idle /\ trial_idle /\ fire_idle
    /\ palette_idle /\ escape_idle /\ canvas_idle
    /\ \E seed \in Seeds, n \in LabelFrameCounts :
          matrix = [op |-> "init",
                    obj |-> ColorMatrixEffect_updated_times(
                                ColorMatrixEffect_init(seed), seed, n),
                    before |-> ColorMatrixEffect_init(seed),
                    failed |-> {},
                    raised |-> "none",
                    fault |-> NoFault,
                    updates |-> 0]

\* update(); an exception that leaves it ends the program
LabelsUpdate ==
    /\ matrix.updates < MaxLabelFrames
    /\ matrix.raised = "none"
    /\ \E seed \in Seeds, fault \in Faults :
          LET after == ColorMatrixEffect_update(matrix.obj, seed, fault)
          IN  matrix' = [op |-> "update",
                         obj |-> after.obj,
                         before |-> matrix.obj,
                         failed |-> after.failed,
                         raised |-> after.raised,
                         fault |-> IF after.failed # {} THEN fault ELSE NoFault,
                         updates |-> matrix.updates + 1]
    /\ UNCHANGED <<sched_vars, trial_vars, fire_vars, palette, escape, canvas>>

\* reset() (a second reset() in a row is left out)
LabelsReset ==
    /\ matrix.op = "update"
    /\ matrix.raised = "none"
    /\ matrix' = [matrix EXCEPT !.op = "reset",
                                !.obj = ColorMatrixEffect_reset(matrix.obj),
                                !.before = matrix.obj,
                                !.failed = {},
                                !.fault = NoFault]
    /\ UNCHANGED <<sched_vars, trial_vars, fire_vars, palette, escape, canvas>>

NextLabels == LabelsUpdate \/ LabelsReset

SpecLabels == InitLabels /\ [][NextLabels]_vars

\* ------------------------------------------------------------------------
\* The two programs with an effect method that may raise.  A reset() or
\* update() that raises does so at its first statement; the exception
\* leaves update() of the scheduler (run() prints and raises it again,
\* main() prints it and returns), so no further update() follows.
\* ------------------------------------------------------------------------
MaxFaultTicks == 3
FaultCalls == {"none", "reset", "update"}

\* advance_effect() up to the reset() call that raises
advance_effect_raising(s) ==
    LET idx == (s.current_effect_index + 1) % Len(effects)
        cur == effects[idx + 1]
    IN  [s EXCEPT !.current_effect_index = idx,
                  !.current_effect = cur,
                  !.trace = Append(@, <<"reset", cur>>)]

\* PyPortalScreensaver.update() in which the call named by fault raises if
\* it is made; clock is the last reading of time.monotonic() made
update_raising(s, touch, t0, t1, t2, t3, fault) ==
    LET s0 == [s EXCEPT !.trace = <<>>]
        byTouch == touch_accepted(s0, touch, t1)
        s1 == handle_touch(s0, touch, t1, t2)
        byTimer == auto_advance_due(s1, t0)
        s2 == IF byTimer THEN advance_effect(s1, t3) ELSE s1
        clock == IF byTimer THEN t3 ELSE IF byTouch THEN t2 ELSE t1
    IN  IF byTouch /\ fault = "reset"
        THEN [obj |-> advance_effect_raising(s0), raised |-> "reset", clock |-> t1]
        ELSE IF byTimer /\ fault = "reset"
        THEN [obj |-> advance_effect_raising(s1), raised |-> "reset",
              clock |-> IF byTouch THEN t2 ELSE t1]
        ELSE IF frame_due(s2, t0) /\ fault = "update"
        THEN [obj |-> [s2 EXCEPT !.trace = Append(@, <<"update", s2.current_effect>>)],
              raised |-> "update", clock |-> clock]
        ELSE [obj |-> render(s2, t0), raised |-> "none", clock |-> clock]

\* next_effect() up to the reset() call that raises
next_effect_raising(m) ==
    LET idx == (m.current_effect_index + 1) % Len(manager_effects)
        cur == manager_effects[idx + 1]
    IN  [m EXCEPT !.current_effect_index = idx,
                  !.current_effect = cur,
                  !.trace = Append(@, <<"reset", cur>>)]

\* ScreensaverManager.update() in which the call named by fault raises if
\* it is made
manager_update_raising(m, t, fault) ==
    LET m0 == [m EXCEPT !.trace = <<>>]
        m1 == handle_auto_scroll(m0, t)
    IN  IF auto_scroll_due(m0, t) /\ fault = "reset"
        THEN [obj |-> next_effect_raising(m0), raised |-> "reset"]
        ELSE IF fault = "update"
        THEN [obj |-> [m1 EXCEPT !.trace = Append(@, <<"update", m1.current_effect>>)],
              raised |-> "update"]
        ELSE [obj |-> manager_update(m, t), raised |-> "none"]

InitFault ==
    /\ program \in Programs
    /\ \E t \in StartTimes :
          /\ monotonic = t
          /\ screensaver = PyPortalScreensaver_init(IF program = "screensaver" THEN t ELSE 0)
          /\ manager = ScreensaverManager_init(IF program = "manager" THEN t ELSE 0)
    /\ touch_value = FALSE
    /\ ticks = 0
    /\ last_tick = [n |-> 0, any_touch |-> FALSE, raised |-> "none"]
    /\ trial_idle
    /\ fire_idle
    /\ ext_idle

\* one iteration of PyPortalScreensaver.run()
FaultTick ==
    /\ program = "screensaver"
    /\ ticks < MaxFaultTicks
    /\ last_tick.raised = "none"
    /\ \E touch \in BOOLEAN, d0 \in TickSteps, d \in ReadSteps, fault \in FaultCalls :
          LET t0 == monotonic + d0
              t1 == t0 + d
              t2 == t1 + d
              s0 == [screensaver EXCEPT !.trace = <<>>]
              byTouch == touch_accepted(s0, touch, t1)
              t3 == (IF byTouch THEN t2 ELSE t1) + d
              after == update_raising(screensaver, touch, t0, t1, t2, t3, fault)
          IN  /\ screensaver' = after.obj
              /\ monotonic' = after.clock
              /\ touch_value' = touch
              /\ last_tick' = [n |-> ticks + 1,
                               before |-> screensaver,
                               any_touch |-> last_tick.any_touch \/ touch,
                               t0 |-> t0,
                               raised |-> after.raised]
    /\ ticks' = ticks + 1
    /\ UNCHANGED <<program, manager, trial_vars, fire_vars, ext_vars>>

\* one iteration of the loop of main()
ManagerFaultTick ==
    /\ program = "manager"
    /\ ticks < MaxFaultTicks
    /\ last_tick.raised = "none"
    /\ \E r \in RenderSteps, fault \in FaultCalls :
          LET t == monotonic + r + (IF ticks = 0 THEN 0 ELSE sleep_time)
              after == manager_update_raising(manager, t, fault)
          IN  /\ manager' = after.obj
              /\ monotonic' = t
              /\ last_tick' = [n |-> ticks + 1,
                               before |-> manager,
                               any_touch |-> FALSE,
                               t0 |-> t,
                               raised |-> after.raised]
    /\ ticks' = ticks + 1
    /\ UNCHANGED <<program, screensaver, touch_value, trial_vars, fire_vars, ext_vars>>

NextFault == FaultTick \/ ManagerFaultTick

SpecFault == InitFault /\ [][NextFault]_vars

\* ------------------------------------------------------------------------
\* The block fill of the two fractals on a bitmap of width x height cells,
\* both from 1 to MaxSide.  A cell holds <<index, x, y>>: the colour index
\* and the cell of the loop that computed it (<<0, -1, -1>> in the bitmap
\* as displayio.Bitmap creates it).  The index of loop cell (x, y) is the
\* one the full-size bitmap has at the same fraction of its width and
\* height (for Mandelbrot with the aspect ratio of the full-size display).
\* ------------------------------------------------------------------------
MaxSide == 4
MaxBlockFrames == 2
Fractals == {"Mandelbrot", "JuliaFractalEffect"}

\* range(0, size, 2)
range_by_2(size) == {n \in 0..(size - 1) : n % 2 = 0}

fractal_index(name, e, x, y, width, height) ==
    IF name = "Mandelbrot"
    THEN Mandelbrot_color_index(e, (x * display_width) \div width,
                                   (y * display_height) \div height)
    ELSE JuliaFractalEffect_color_index(e, (x * half_width) \div width,
                                           (y * half_height) \div height)

\* the assignments of the pixel loop of update() on object e
fractal_writes(name, e, width, height) ==
    UNION {block_2x2(x, y, <<fractal_index(name, e, x, y, width, height), x, y>>,
                     width, height) :
              x \in range_by_2(width), y \in range_by_2(height)}

\* the bitmap after the assignments in writes, made in the order of the
\* loop (rows of blocks top-down, blocks left to right)
bitmap_after(bitmap, writes) ==
    [c \in DOMAIN bitmap |->
        LET here == {w \in writes : w.x = c[1] /\ w.y = c[2]}
            last == CHOOSE w \in here :
                        \A v \in here : v.value[3] < w.value[3]
                                        \/ (v.value[3] = w.value[3]
                                            /\ v.value[2] <= w.value[2])
        IN  IF here = {} THEN bitmap[c] ELSE last.value]

InitBlocks ==
    /\ sched_idle /\ trial_idle /\ fire_idle
    /\ palette_idle /\ escape_idle /\ matrix_idle
    /\ \E name \in Fractals, width \in 1..MaxSide, height \in 1..MaxSide,
          n \in {0, 60} :
          canvas = [op |-> "init",
                    gen |-> name,
                    width |-> width,
                    height |-> height,
                    obj |-> updated_times(name, Generator_init(name), n),
                    bitmap |-> [c \in (0..(width - 1)) \X (0..(height - 1)) |-> <<0, -1, -1>>],
                    before |-> [c \in (0..(width - 1)) \X (0..(height - 1)) |-> <<0, -1, -1>>],
                    updates |-> 0]

\* update()
BlocksUpdate ==
    /\ canvas.updates < MaxBlockFrames
    /\ LET after == Generator_update(canvas.gen, canvas.obj)
       IN  canvas' = [canvas EXCEPT
                         !.op = "update",
                         !.obj = after,
                         !.before = canvas.bitmap,
                         !.bitmap = bitmap_after(canvas.bitmap,
                                       fractal_writes(canvas.gen, after,
                                                      canvas.width, canvas.height)),
                         !.updates = @ + 1]
    /\ UNCHANGED <<sched_vars, trial_vars, fire_vars, palette, escape, matrix>>

NextBlocks == BlocksUpdate

SpecBlocks == InitBlocks /\ [][NextBlocks]_vars

\* ------------------------------------------------------------------------
\* The two programs ticking for ever.  After each update() every clock
\* reading kept in the scheduler is moved by the same amount, so that the
\* clock reads LiveHorizon, and a reading further back than the interval it
\* is compared with is held just beyond that interval: every comparison of
\* the next update() comes out as on the unmoved clock.  The animation
\* state of the effects does not enter the scheduler's decisions and is not
\* followed here.
\* ------------------------------------------------------------------------
LiveHorizon == 2000
\* Clock advance between two update() calls of PyPortalScreensaver.run()
LiveSteps == {1, touch_debounce, auto_advance_time \div 3}

\* the reading v on the clock moved by shift, no further back than cap
moved_reading(v, shift, cap) ==
    IF LiveHorizon - (v + shift) > cap THEN LiveHorizon - cap ELSE v + shift

\* the PyPortalScreensaver object s on the clock moved from clock to
\* LiveHorizon
screensaver_moved(s, clock) ==
    [s EXCEPT !.last_touch_time =
                  moved_reading(@, LiveHorizon - clock, touch_debounce + 1),
              !.last_advance_time =
                  moved_reading(@, LiveHorizon - clock, auto_advance_time + 1),
              !.last_frame_time =
                  moved_reading(@, LiveHorizon - clock, frame_time),
              !.fx = screensaver.fx]

\* the ScreensaverManager object m on the clock moved from clock to
\* LiveHorizon
manager_moved(m, clock) ==
    [m EXCEPT !.last_scroll_time =
                  moved_reading(@, LiveHorizon - clock, auto_scroll_time),
              !.fx = manager.fx]

InitLive ==
    /\ program \in Programs
    /\ \E t \in StartTimes :
          /\ monotonic = t
          /\ screensaver = PyPortalScreensaver_init(IF program = "screensaver" THEN t ELSE 0)
          /\ manager = ScreensaverManager_init(IF program = "manager" THEN t ELSE 0)
    /\ touch_value = FALSE
    /\ ticks = 0
    /\ last_tick = [n |-> 0, any_touch |-> FALSE, touch |-> FALSE, prev_index |-> 0]
    /\ trial_idle
    /\ fire_idle
    /\ ext_idle

\* one iteration of PyPortalScreensaver.run()
LiveTick ==
    /\ program = "screensaver"
    /\ \E touch \in BOOLEAN, d0 \in LiveSteps, d \in ReadSteps :
          LET t0 == monotonic + d0
              t1 == t0 + d
              t2 == t1 + d
              s0 == [screensaver EXCEPT !.trace = <<>>]
              byTouch == touch_accepted(s0, touch, t1)
              s1 == handle_touch(s0, touch, t1, t2)
              byTimer == auto_advance_due(s1, t0)
              t3 == (IF byTouch THEN t2 ELSE t1) + d
              clock == IF byTimer THEN t3 ELSE IF byTouch THEN t2 ELSE t1
          IN  /\ screensaver' =
                    screensaver_moved(update(screensaver, touch, t0, t1, t2, t3), clock)
              /\ touch_value' = touch
              /\ last_tick' = [n |-> 1,
                               any_touch |-> FALSE,
                               touch |-> touch,
                               prev_index |-> screensaver.current_effect_index]
    /\ monotonic' = LiveHorizon
    /\ ticks' = 1
    /\ UNCHANGED <<program, manager, trial_vars, fire_vars, ext_vars>>

\* one iteration of the loop of main()
ManagerLiveTick ==
    /\ program = "manager"
    /\ \E r \in RenderSteps :
          LET t == monotonic + r + (IF ticks = 0 THEN 0 ELSE sleep_time)
          IN  /\ manager' = manager_moved(manager_update(manager, t), t)
              /\ last_tick' = [n |-> 1,
                               any_touch |-> FALSE,
                               touch |-> FALSE,
                               prev_index |-> manager.current_effect_index]
    /\ monotonic' = LiveHorizon
    /\ ticks' = 1
    /\ UNCHANGED <<program, screensaver, touch_value, trial_vars, fire_vars, ext_vars>>

NextLive == LiveTick \/ ManagerLiveTick

\* the loop keeps ticking
SpecLive == InitLive /\ [][NextLive]_vars /\ WF_vars(NextLive)

\* ------------------------------------------------------------------------
\* Reading the last tick
\* ------------------------------------------------------------------------
sched == IF program = "screensaver" THEN screensaver ELSE manager
sched_effects == IF program = "screensaver" THEN effects ELSE manager_effects
before == last_tick.before
ticked == last_tick.n > 0
last_transition(s) ==
    IF program = "screensaver" THEN s.last_advance_time ELSE s.last_scroll_time
interval == IF program = "screensaver" THEN auto_advance_time ELSE auto_scroll_time

\* positions of the calls of one kind in the trace of the last update()
calls(kind) == {i \in 1..Len(sched.trace) : sched.trace[i][1] = kind}
transitions == Cardinality(calls("reset"))
rendered == calls("update") # {}

\* ------------------------------------------------------------------------
\* Claims
\* ------------------------------------------------------------------------

\* C1: one update() performs at most one transition; with an accepted touch
\* and an elapsed auto-advance interval in the same call the touch transition
\* is the only one, and the index moves by one.
C1_OneTransitionPerUpdate ==
    ticked =>
        /\ transitions <= 1
        /\ (program = "screensaver" /\ last_tick.by_touch) =>
              /\ ~last_tick.by_timer
              /\ screensaver.current_effect_index =
                    (before.current_effect_index + 1) % Len(effects)

C1_Witness ==
    /\ program = "screensaver"
    /\ ticked
    /\ last_tick.by_touch
    /\ (last_tick.t0 - before.last_advance_time) > auto_advance_time
    /\ transitions = 1

\* C2: a touch transition happens only on a rising edge of the touch sample:
\* the sample of the previous update() was false.
C2_TouchOnlyOnRisingEdge ==
    (program = "screensaver" /\ ticked /\ last_tick.by_touch) =>
        ~last_tick.prev_touch

\* C3: a touch sampled within the debounce window of the last accepted touch
\* causes no transition, calls no reset() and changes neither the active
\* index nor last_touch_time.
C3_TouchDebounce ==
    (/\ program = "screensaver"
     /\ ticked
     /\ last_tick.touch
     /\ last_tick.t1 - before.last_touch_time <= touch_debounce) =>
        /\ transitions = 0
        /\ screensaver.current_effect_index = before.current_effect_index
        /\ screensaver.current_effect = before.current_effect
        /\ screensaver.last_touch_time = before.last_touch_time

C3_Witness ==
    /\ program = "screensaver"
    /\ ticked
    /\ last_tick.touch
    /\ before.last_touch_time > 0
    /\ before.current_effect_index > 0
    /\ last_tick.t1 - before.last_touch_time <= touch_debounce
    /\ last_tick.t1 - before.last_touch_time > 0

\* C4: with no touch input a tick performs a transition if and only if
\* now - last_transition >= the auto-advance interval, at most one per tick,
\* and the transition moves the index by one, wrapping to 0.
C4_TimerIffIntervalElapsed ==
    (ticked /\ ~last_tick.any_touch) =>
        /\ transitions <= 1
        /\ (transitions = 1) <=> (last_tick.t0 - last_transition(before) >= interval)
        /\ (transitions = 1) =>
              sched.current_effect_index =
                  (before.current_effect_index + 1) % Len(sched_effects)

\* C4 on ScreensaverManager alone (handle_auto_scroll compares with >=)
C4_ManagerTimer ==
    program = "manager" => C4_TimerIffIntervalElapsed

\* C5: every transition sets the index to (index + 1) mod count, makes
\* current_effect the effect at that index, calls reset() once, on that
\* effect only, and records the transition time, so that the auto-advance
\* interval is measured afresh from this transition.
C5_Transition ==
    (ticked /\ transitions >= 1) =>
        /\ sched.current_effect_index =
              (before.current_effect_index + 1) % Len(sched_effects)
        /\ sched.current_effect = sched_effects[sched.current_effect_index + 1]
        /\ transitions = 1
        /\ \A i \in calls("reset") : sched.trace[i][2] = sched.current_effect
        /\ last_transition(sched) >= last_tick.t0
        /\ last_transition(sched) <= monotonic
        /\ monotonic - last_transition(sched) < interval

C5_Witness ==
    /\ program = "screensaver"
    /\ ticked
    /\ last_tick.by_touch
    /\ before.current_effect_index = Len(effects) - 1
    /\ screensaver.current_effect_index = 0
    /\ before.last_advance_time < last_tick.t0
    /\ screensaver.last_advance_time > last_tick.t0

\* C6: in a tick that transitions and renders, the rendered effect is the
\* newly active one and its update() comes after its reset().
C6_ResetBeforeRender ==
    ticked =>
        \A u \in calls("update") :
            /\ sched.trace[u][2] = sched.current_effect
            /\ \A r \in calls("reset") :
                  /\ r < u
                  /\ sched.trace[r][2] = sched.trace[u][2]

C6_Witness ==
    /\ ticked
    /\ transitions = 1
    /\ rendered
    /\ sched.current_effect # before.current_effect

\* C7: PyPortalScreensaver renders in a tick only when at least frame_time has
\* elapsed since the reading recorded at the previous render, and then records
\* this tick's reading as last_frame_time; the loop of main() keeps two
\* renders of ScreensaverManager at least its sleep apart.
C7_FramePacing ==
    /\ (program = "screensaver" /\ ticked) =>
          /\ rendered =>
                /\ last_tick.t0 - before.last_frame_time >= frame_time
                /\ screensaver.last_frame_time = last_tick.t0
          /\ ~rendered => screensaver.last_frame_time = before.last_frame_time
    /\ (program = "manager" /\ last_tick.n > 1) =>
          last_tick.t0 - last_tick.prev_t0 >= sleep_time

C7_Witness ==
    /\ program = "screensaver"
    /\ ticked
    /\ rendered
    /\ before.last_frame_time > 0
    /\ last_tick.t0 - before.last_frame_time = frame_time

\* C8: a tick calls update() on the effect at the active index only, and
\* leaves the animation state of every other effect unchanged.
C8_InactiveEffectsUntouched ==
    ticked =>
        /\ \A u \in calls("update") :
              sched.trace[u][2] = sched_effects[sched.current_effect_index + 1]
        /\ \A n \in DOMAIN sched.fx :
              n # sched.current_effect => sched.fx[n] = before.fx[n]

C8_Witness ==
    /\ ticked
    /\ rendered
    /\ \E n \in DOMAIN sched.fx :
          /\ n # sched.current_effect
          /\ sched.fx[n].time > 0
          /\ sched.fx[n] = before.fx[n]

\* C9: for every generator that draws on no random source, the frames that
\* reset() followed by N update() calls produce are those of N update() calls
\* on a freshly constructed effect, whatever number of update() calls came
\* before the reset().
C9_ResetThenUpdateIsReproducible ==
    phase = "run" => frames.used = frames.fresh

\* C9 for the generators other than Mandelbrot
C9_ExceptMandelbrot ==
    (phase = "run" /\ gen # "Mandelbrot") => frames.used = frames.fresh

\* C10: FireEffect.reset() recreates the heat grid as construction leaves it:
\* 0 in every cell above the source row, 31 in every cell of the source row.
C10_FireResetRecreatesGrid ==
    fire_log.op = "reset" =>
        /\ fire.fire_buffer = FireEffect_init.fire_buffer
        /\ \A y \in 0..(fire_height - 2) : \A x \in 0..(fire_width - 1) :
              fire.fire_buffer[y][x] = 0
        /\ \A x \in 0..(fire_width - 1) : fire.fire_buffer[fire_height - 1][x] = max_heat

\* C10 for the source row alone, which reset() does relight
C10_FireResetRelightsSource ==
    fire_log.op = "reset" =>
        \A x \in 0..(fire_width - 1) : fire.fire_buffer[fire_height - 1][x] = max_heat

\* C11: every value an effect writes into its bitmap is an integer in
\* [0, N - 1] for the value count N of that bitmap, after construction and
\* after any sequence of update() and reset() calls.
C11_IndexInRange ==
    \A w \in canvas.writes : w.value \in 0..(bitmap_value_count(canvas.gen) - 1)

C11_Witness ==
    /\ canvas.op = "update"
    /\ canvas.gen = "StarfieldEffect"
    /\ \E w \in canvas.writes :
          /\ w.by > 0
          /\ w.value = 15
          /\ star_brightness_unclamped(
                 star_moved(canvas.before.stars[w.by], warp_factor(canvas.before.time + 1))) > 15

\* an orbit that starts at z = (zx, zy) satisfies |z|^2 > 4 at one of the
\* tests of the passes i .. limit - 1
RECURSIVE orbit_escapes(_, _, _, _, _, _)
orbit_escapes(zx, zy, cx, cy, i, limit) ==
    /\ i < limit
    /\ \/ zx * zx + zy * zy > 4000000
       \/ orbit_escapes((zx * zx - zy * zy) \div 1000 + cx, (2 * zx * zy) \div 1000 + cy,
                        cx, cy, i + 1, limit)

\* the orbit of the pixel (x, y) of the effect on the canvas escapes
pixel_escapes(x, y) ==
    IF canvas.gen = "Mandelbrot"
    THEN LET c == Mandelbrot_screen_to_complex(canvas.obj, x, y)
         IN  orbit_escapes(0, 0, c[1], c[2], 0, max_iterations)
    ELSE LET z == JuliaFractalEffect_point(canvas.obj, x, y)
         IN  orbit_escapes(z[1], z[2], JuliaFractalEffect_c_real(canvas.obj),
                           JuliaFractalEffect_c_imag(canvas.obj), 0, julia_max_iterations)

\* the writes of the fractal loops at the pixels they compute (even x and y)
loop_writes == {w \in canvas.writes : w.x % 2 = 0 /\ w.y % 2 = 0}

\* C12: in both escape-time generators a pixel is written with index 0 if and
\* only if its orbit does not escape within max_iterations; every pixel whose
\* orbit escapes, also at the first test, gets an index in [1, N - 1].
C12_ZeroIffNoEscape ==
    (canvas.op = "update" /\ canvas.gen \in {"Mandelbrot", "JuliaFractalEffect"}) =>
        \A w \in loop_writes :
            /\ (w.value = 0) <=> ~pixel_escapes(w.x, w.y)
            /\ pixel_escapes(w.x, w.y) =>
                  w.value \in 1..(bitmap_value_count(canvas.gen) - 1)

\* C12 for Mandelbrot alone, whose orbit starts at 0 and cannot pass the
\* first test
C12_Mandelbrot ==
    canvas.gen = "Mandelbrot" => C12_ZeroIffNoEscape

\* C13: for every max_iterations >= 1 the point c = (0, 0) never escapes and
\* _mandelbrot_iteration returns 0; for every max_iterations >= 2 the point
\* c = (2, 2) is reported as escaped with the returned count 1.
C13_MandelbrotEscapeTest ==
    escape.op = "return" =>
        /\ (escape.cx = 0 /\ escape.cy = 0) => escape.result = 0
        /\ (escape.cx = 2000 /\ escape.cy = 2000 /\ escape.limit >= 2) =>
              escape.result = 1

C13_Witness ==
    /\ escape.op = "return"
    /\ escape.cx = 2000
    /\ escape.cy = 2000
    /\ escape.limit = max_iterations
    /\ escape.result = 1

\* C14: after construction and after any sequence of update() and reset()
\* calls every cell of the bottom source row holds heat >= 20 and every cell
\* of the heat grid holds heat in [0, 31].
C14_FireHeatBounds ==
    /\ \A x \in 0..(fire_width - 1) : fire.fire_buffer[fire_height - 1][x] >= 20
    /\ \A y \in 0..(fire_height - 1) : \A x \in 0..(fire_width - 1) :
          fire.fire_buffer[y][x] \in 0..max_heat

C14_Witness ==
    /\ fire_log.updates >= 2
    /\ fire_log.op = "update"
    /\ \E x \in 0..(fire_width - 1) : fire.fire_buffer[fire_height - 1][x] < max_heat
    /\ \E x \in 0..(fire_width - 1) : fire.fire_buffer[0][x] > 0
    /\ \E x \in 0..(fire_width - 1) : fire.fire_buffer[0][x] < fire.fire_buffer[1][x]

\* the star number i as update() has moved it, before the respawn test
moved_star(i) == star_moved(canvas.before.stars[i], warp_factor(canvas.before.time + 1))
\* squared distance of star number i from the vanishing point, in 1/1000000
star_distance_squared(i) ==
    (canvas.obj.stars[i].x - star_center_x) * (canvas.obj.stars[i].x - star_center_x)
  + (canvas.obj.stars[i].y - star_center_y) * (canvas.obj.stars[i].y - star_center_y)

\* C15: in the update() in which a star's z falls below 1, or its integer
\* screen position leaves the bitmap, the star is respawned with z in
\* [30, 50] and at a distance in [1, 5] from the vanishing point (to within
\* the 1 % of the fixed-point sine), and it is not drawn in that frame.
C15_StarRespawn ==
    (canvas.op = "update" /\ canvas.gen = "StarfieldEffect") =>
        \A i \in 1..num_stars :
            star_gone(moved_star(i)) =>
                /\ canvas.obj.stars[i].z \in 30000..50000
                /\ star_distance_squared(i) >= 990 * 990
                /\ star_distance_squared(i) <= 5050 * 5050
                /\ ~\E w \in canvas.writes : w.by = i

C15_Witness ==
    /\ canvas.op = "update"
    /\ canvas.gen = "StarfieldEffect"
    /\ \E i \in 1..num_stars :
          /\ moved_star(i).z < 1000
          /\ int(moved_star(i).x) \in 0..(half_width - 1)
          /\ int(moved_star(i).y) \in 0..(half_height - 1)
          /\ canvas.obj.stars[i].z >= 30000
    /\ \E j \in 1..num_stars : \E w \in canvas.writes : w.by = j

\* the palette is complete: the loop of the constructor has ended
palette_built == Len(palette.entries) = palette_size(palette.owner)
\* every channel of every entry written so far
channels == {palette.entries[i][k] : i \in 1..Len(palette.entries), k \in 1..3}

\* C16: index 0 of every fractal (Mandelbrot, Julia), heat (fire), star and
\* matrix-rain palette is pure black (0, 0, 0).
C16_IndexZeroIsBlack ==
    (/\ palette.owner \in {"Mandelbrot", "JuliaFractalEffect", "FireEffect",
                           "StarfieldEffect", "MatrixEffect"}
     /\ Len(palette.entries) >= 1) =>
        palette.entries[1] = <<0, 0, 0>>

C16_Witness ==
    /\ palette.owner = "FireEffect"
    /\ palette_built
    /\ palette.entries[1] = <<0, 0, 0>>
    /\ palette.entries[palette_size("FireEffect")] = <<255, 255, 255>>

\* C17: every RGB channel of every palette entry of every effect is an
\* integer in [0, 255], the palettes built without a clamp included.
C17_ChannelsInRange ==
    channels \subseteq 0..255

C17_Witness ==
    /\ palette.owner = "PlasmaEffect"
    /\ palette_built
    /\ \E c \in channels : c >= 250
    /\ \E c \in channels : c <= 5

\* C18: no update() writes a bitmap coordinate outside [0, width) x
\* [0, height): a star, streamer point, trail cell or block cell that falls
\* outside is skipped.
C18_WritesInsideBitmap ==
    \A w \in canvas.writes :
        /\ w.x \in 0..(bitmap_width(canvas.gen) - 1)
        /\ w.y \in 0..(bitmap_height(canvas.gen) - 1)

C18_Witness ==
    /\ canvas.op = "update"
    /\ canvas.gen = "StreamersEffect"
    /\ \E i \in 1..num_streamers :
          /\ \E x \in streamer_range(canvas.obj.streamers[i]) : ~streamer_visible(x)
          /\ \E w \in canvas.writes : w.by = i

\* the labels the group holds and the list does not, and the reverse
group_only(e) ==
    {e.group[i] : i \in 1..Len(e.group)}
        \ {e.active_labels[i].id : i \in 1..Len(e.active_labels)}
list_only(e) ==
    {e.active_labels[i].id : i \in 1..Len(e.active_labels)}
        \ {e.group[i] : i \in 1..Len(e.group)}

\* the drop of column col went down by 0.4 * speed in the last update() (a
\* drop at which a character is added is at least five rows above the row
\* from which it is drawn again above the screen)
drop_advanced(col) ==
    matrix.obj.drop_positions[col]
        = matrix.before.drop_positions[col]
          + (matrix.before.drop_speeds[col] * 4) \div 10

\* C19: when the creation of a label fails with MemoryError or RuntimeError
\* in ColorMatrixEffect.update(), no exception leaves update(), the failed
\* label is neither in the display group nor in active_labels, the two
\* differ after the call exactly as they did before it, and the drop of
\* that column has advanced.
C19_LabelFailureSkipped ==
    (matrix.op = "update" /\ matrix.failed # {}) =>
        /\ matrix.raised = "none"
        /\ \A f \in matrix.failed :
              /\ ~group_has(matrix.obj, f.id)
              /\ \A i \in 1..Len(matrix.obj.active_labels) :
                    matrix.obj.active_labels[i].id # f.id
              /\ drop_advanced(f.col)
        /\ group_only(matrix.obj) = group_only(matrix.before)
        /\ list_only(matrix.obj) = list_only(matrix.before)

\* a RuntimeError struck the creation of a label in an update() that
\* returned, with labels on the display from this or earlier frames
C19_Witness ==
    /\ matrix.op = "update"
    /\ matrix.failed # {}
    /\ matrix.fault.kind = "RuntimeError"
    /\ matrix.raised = "none"
    /\ Len(matrix.obj.group) > 0
    /\ Len(matrix.obj.active_labels) > 0

\* the last-frame timestamp (ScreensaverManager keeps none)
last_frame(s) == IF program = "screensaver" THEN s.last_frame_time ELSE 0

\* the four fields are as before the tick
scheduler_untouched ==
    /\ sched.current_effect_index = before.current_effect_index
    /\ sched.current_effect = before.current_effect
    /\ last_transition(sched) = last_transition(before)
    /\ last_frame(sched) = last_frame(before)

\* the four fields are as a completed transition of this tick leaves them
scheduler_transitioned ==
    /\ sched.current_effect_index =
          (before.current_effect_index + 1) % Len(sched_effects)
    /\ sched.current_effect = sched_effects[sched.current_effect_index + 1]
    /\ last_transition(sched) >= last_tick.t0
    /\ last_frame(sched) = last_frame(before)

\* C20: after a tick in which update() of the active effect or reset() of
\* the newly selected effect raised, the active index, current_effect, the
\* last-transition timestamp and the last-frame timestamp are all as before
\* the tick or all as after a completed transition.
C20_NoPartialUpdate ==
    (ticked /\ last_tick.raised # "none") =>
        scheduler_untouched \/ scheduler_transitioned

\* C20 for a raising update() alone: the call is the last of the tick, and
\* the frame time is recorded after it
C20_UpdateFailure ==
    (ticked /\ last_tick.raised = "update") =>
        scheduler_untouched \/ scheduler_transitioned

\* reset() raised in a tick: the index and current_effect are those of the
\* next effect, the last-transition timestamp is the one before the tick
C20_ResetFailure ==
    (ticked /\ last_tick.raised = "reset") =>
        /\ sched.current_effect_index =
              (before.current_effect_index + 1) % Len(sched_effects)
        /\ sched.current_effect = sched_effects[sched.current_effect_index + 1]
        /\ last_transition(sched) = last_transition(before)

\* the row beneath row y as the pass finds it: the source row before its
\* refresh, or a row the same pass has already rewritten
fire_row_below(y) ==
    IF y = fire_height - 2
    THEN fire_log.before.fire_buffer[fire_height - 1]
    ELSE fire.fire_buffer[y + 1]

\* the cooled average of the in-grid cells among cells, a set of <<x, heat>>,
\* with the random draws of cell (x, y)
fire_cooled(cells, x, y, seed) ==
    LET RECURSIVE total(_)
        total(S) == IF S = {} THEN 0
                    ELSE LET c == CHOOSE c \in S : TRUE IN c[2] + total(S \ {c})
        heat_sum == total(cells)
        heat_count == Cardinality(cells)
        k == 3 * (y * fire_width + x)
        cooling == randint(seed, k, 1, 3)
        cooled == IF heat_sum - cooling * heat_count > 0
                  THEN (heat_sum - cooling * heat_count) \div heat_count
                  ELSE 0
        extra == IF randint(seed, k + 1, 0, 10) < 3 THEN randint(seed, k + 2, 0, 2) ELSE 0
    IN  clamp(0, max_heat, cooled - extra)

\* the in-grid cells of the row beneath (x, y) at x-1, x, x+1
fire_cells_below(x, y) ==
    {<<nx, fire_row_below(y)[nx]>> : nx \in {n \in {x - 1, x, x + 1} : 0 <= n /\ n < fire_width}}

\* the cells of row y at x-1, x, x+1 as the pass finds them: x-1 rewritten,
\* x and x+1 not yet (tagged apart from the row beneath by an offset of
\* fire_width)
fire_cells_beside(x, y) ==
    {<<fire_width + nx,
       IF nx < x THEN fire.fire_buffer[y][nx] ELSE fire_log.before.fire_buffer[y][nx]>> :
        nx \in {n \in {x - 1, x, x + 1} : 0 <= n /\ n < fire_width}}

\* C21: after an update(), every cell above the source row holds the
\* average of the in-grid cells of the row beneath it at x-1, x, x+1 (rows
\* taken bottom-up), minus a cooling of 1..3 and an occasional extra 0..2,
\* clamped to [0, 31]; cells of its own row do not enter the average.
C21_AverageOfRowBelow ==
    fire_log.op = "update" =>
        \A y \in 0..(fire_height - 2), x \in 0..(fire_width - 1) :
            fire.fire_buffer[y][x]
                = fire_cooled(fire_cells_below(x, y), x, y, fire_log.seed)

\* C21 with the cells of the own row in the average, as the sampling loop
\* (dy in [0, 1]) takes them
C21_AverageWithOwnRow ==
    fire_log.op = "update" =>
        \A y \in 0..(fire_height - 2), x \in 0..(fire_width - 1) :
            fire.fire_buffer[y][x]
                = fire_cooled(fire_cells_below(x, y) \cup fire_cells_beside(x, y),
                              x, y, fire_log.seed)

\* zoom_speed (1.02) raised to k, multiplied up as update() does, in 1/10000
RECURSIVE zoom_grown(_, _)
zoom_grown(zoom, k) ==
    IF k = 0 \/ zoom < 0
    THEN zoom
    ELSE IF k > RecursionDepth
    THEN zoom_grown(zoom_grown(zoom, RecursionDepth), k - RecursionDepth)
    ELSE zoom_grown((zoom * 102) \div 100, k - 1)
zoom_speed_power(k) == zoom_grown(Mandelbrot_init.zoom, k)

\* C22: after every update() and reset() of Mandelbrot, frame_count is in
\* [0, zoom_cycle_time - 1] and zoom is zoom_speed to the power frame_count;
\* the update() in which frame_count reaches zoom_cycle_time sets
\* frame_count, zoom and the centre back to 0, 1.0 and (-0.5, 0.0), and
\* every other update() moves frame_count on by one, so a cycle is 200
\* updates long.
C22_ZoomCycle ==
    (canvas.op # "none" /\ canvas.gen = "Mandelbrot") =>
        /\ canvas.obj.frame_count \in 0..(zoom_cycle_time - 1)
        /\ canvas.obj.zoom = zoom_speed_power(canvas.obj.frame_count)
        /\ canvas.op = "update" =>
              IF canvas.before.frame_count = zoom_cycle_time - 1
              THEN /\ canvas.obj.frame_count = 0
                   /\ canvas.obj.zoom = Mandelbrot_init.zoom
                   /\ canvas.obj.center_x = Mandelbrot_init.center_x
                   /\ canvas.obj.center_y = Mandelbrot_init.center_y
              ELSE canvas.obj.frame_count = canvas.before.frame_count + 1

\* the update() that ends a zoom cycle has run, from a moved centre
C22_Witness ==
    /\ canvas.op = "update"
    /\ canvas.gen = "Mandelbrot"
    /\ canvas.before.frame_count = zoom_cycle_time - 1
    /\ canvas.before.zoom > Mandelbrot_init.zoom
    /\ canvas.before.center_x # Mandelbrot_init.center_x
    /\ canvas.obj.frame_count = 0

\* C23: on a bitmap of any width and height from 1 up, odd or even, one
\* update() of Mandelbrot or JuliaFractalEffect leaves in every cell (x, y)
\* the index computed in that update() for the cell (x - x mod 2,
\* y - y mod 2).
C23_BlockFill ==
    (canvas.op = "update" /\ "bitmap" \in DOMAIN canvas) =>
        \A c \in DOMAIN canvas.bitmap :
            canvas.bitmap[c] =
                << fractal_index(canvas.gen, canvas.obj,
                                 c[1] - (c[1] % 2), c[2] - (c[2] % 2),
                                 canvas.width, canvas.height),
                   c[1] - (c[1] % 2), c[2] - (c[2] % 2) >>

\* a second update() has filled a bitmap of odd width and even height (or
\* the reverse) in which two blocks hold different indices, and a cell has
\* changed its index from the frame before
C23_Witness ==
    /\ canvas.op = "update"
    /\ "bitmap" \in DOMAIN canvas
    /\ canvas.updates = 2
    /\ canvas.width % 2 # canvas.height % 2
    /\ \E c, d \in DOMAIN canvas.bitmap : canvas.bitmap[c][1] # canvas.bitmap[d][1]
    /\ \E c \in DOMAIN canvas.bitmap : canvas.bitmap[c][1] # canvas.before[c][1]

\* the head of a Matrix column above the visible area, where a new drop
\* starts (positions count 1/10)
matrix_start(position) == -150 <= position /\ position <= -50

\* C24: after construction and after every update() of MatrixEffect every
\* column's head is in [-15, rows + 5]; a column whose head passes rows + 5
\* gets a start position in [-15, -5] in the same update(); an idle column
\* draws nothing and keeps its position and speed until it is reactivated,
\* and reactivation puts its head in [-15, -5].
C24_ColumnLifecycle ==
    (canvas.op # "none" /\ canvas.gen = "MatrixEffect") =>
        \A col \in 0..(matrix_columns - 1) :
            /\ -150 <= canvas.obj.drop_positions[col]
            /\ canvas.obj.drop_positions[col] <= (matrix_rows + 5) * 10
            /\ canvas.op = "update" =>
                  IF canvas.before.drop_active[col]
                  THEN canvas.before.drop_positions[col]
                           + canvas.before.drop_speeds[col] * 3 > (matrix_rows + 5) * 10
                       => matrix_start(canvas.obj.drop_positions[col])
                  ELSE /\ \A w \in canvas.writes : w.x = col => w.value = 0
                       /\ canvas.obj.drop_speeds[col] = canvas.before.drop_speeds[col]
                       /\ IF canvas.obj.drop_active[col]
                          THEN matrix_start(canvas.obj.drop_positions[col])
                          ELSE canvas.obj.drop_positions[col]
                                   = canvas.before.drop_positions[col]

\* one update() in which a head passed rows + 5 and was started again, an
\* idle column with its head in the visible rows stayed idle, and another
\* idle column was reactivated
C24_Witness ==
    /\ canvas.op = "update"
    /\ canvas.gen = "MatrixEffect"
    /\ \E col \in 0..(matrix_columns - 1) :
          /\ canvas.before.drop_active[col]
          /\ canvas.before.drop_positions[col] > 0
          /\ canvas.obj.drop_positions[col] < 0
    /\ \E col \in 0..(matrix_columns - 1) :
          /\ ~canvas.before.drop_active[col]
          /\ ~canvas.obj.drop_active[col]

\* C25: from construction on and after every tick the display's root group
\* is the group of the active effect.
C25_RootGroupIsActive ==
    sched.root_group = sched.current_effect

\* C25 from the first transition on
C25_RootGroupAfterTransition ==
    sched.current_effect_index # 0 => sched.root_group = sched.current_effect

\* C26: in every state the index is inside the effects list, current_effect
\* is the effect at that index, and the list is the one built at
\* construction.
C26_SchedulerInvariant ==
    /\ 0 <= sched.current_effect_index
    /\ sched.current_effect_index < Len(sched.effects)
    /\ sched.current_effect = sched.effects[sched.current_effect_index + 1]
    /\ sched.effects = sched_effects

\* a transition has taken the index from the last effect back to 0
C26_Witness ==
    /\ ticked
    /\ transitions = 1
    /\ before.current_effect_index = Len(sched.effects) - 1
    /\ sched.current_effect_index = 0

\* C27: while the loop keeps ticking, whatever the touch input, every
\* effect of the list is the active effect again and again, and the index
\* changes only to the next index of the list.
C27_Rotation ==
    /\ \A i \in 0..(Len(effects) - 1) :
          []<>(i < Len(sched_effects) => sched.current_effect_index = i)
    /\ [][sched.current_effect_index' \in
              {sched.current_effect_index,
               (sched.current_effect_index + 1) % Len(sched_effects)}]_vars

\* the timer has taken the index from the last effect back to 0 in a tick
\* without touch
C27_Witness ==
    /\ last_tick.n = 1
    /\ "prev_index" \in DOMAIN last_tick
    /\ ~last_tick.touch
    /\ last_tick.prev_index = Len(sched_effects) - 1
    /\ sched.current_effect_index = 0

\* C28: after every update() and reset() of StarfieldEffect the star list
\* holds num_stars stars; after every update() each star has z >= 1 and
\* (int(x), int(y)) inside the bitmap; a star that is drawn is drawn with
\* a brightness in [1, 15].
C28_StarfieldInvariant ==
    (canvas.op # "none" /\ canvas.gen = "StarfieldEffect") =>
        /\ Len(canvas.obj.stars) = num_stars
        /\ canvas.op = "update" =>
              /\ \A i \in 1..num_stars :
                    /\ canvas.obj.stars[i].z >= 1000
                    /\ int(canvas.obj.stars[i].x) \in 0..(half_width - 1)
                    /\ int(canvas.obj.stars[i].y) \in 0..(half_height - 1)
              /\ \A w \in canvas.writes : w.by > 0 => w.value \in 1..15

\* an update() that found a star outside the bitmap, as _init_stars() can
\* place it, and drew another star
C28_Witness ==
    /\ canvas.op = "update"
    /\ canvas.gen = "StarfieldEffect"
    /\ \E i \in 1..num_stars :
          \/ int(canvas.before.stars[i].x) \notin 0..(half_width - 1)
          \/ int(canvas.before.stars[i].y) \notin 0..(half_height - 1)
    /\ \E w \in canvas.writes : w.by > 0

\* the largest heat among the cells that the pass samples for cell (x, y)
fire_sampled_max(x, y) ==
    LET cells == fire_cells_below(x, y) \cup fire_cells_beside(x, y)
    IN  CHOOSE h \in {c[2] : c \in cells} : \A c \in cells : c[2] <= h

\* C29: in every reachable state every cell above the source row holds
\* heat <= 30, and the value an update() writes to such a cell is at most
\* the largest heat among the cells it sampled minus 1, or is 0.
C29_NoHeatAboveSource ==
    /\ \A y \in 0..(fire_height - 2), x \in 0..(fire_width - 1) :
          fire.fire_buffer[y][x] <= max_heat - 1
    /\ fire_log.op = "update" =>
          \A y \in 0..(fire_height - 2), x \in 0..(fire_width - 1) :
              \/ fire.fire_buffer[y][x] <= fire_sampled_max(x, y) - 1
              \/ fire.fire_buffer[y][x] = 0

\* an update() after the first that wrote heat to the row next to the source
\* from a source cell at full heat, and heat to the top row from the heat of
\* the row beneath it
C29_Witness ==
    /\ fire_log.op = "update"
    /\ fire_log.updates >= 2
    /\ \E x \in 0..(fire_width - 1) :
          /\ fire.fire_buffer[fire_height - 2][x] > 0
          /\ fire_sampled_max(x, fire_height - 2) = max_heat
    /\ \E x \in 0..(fire_width - 1) :
          /\ fire.fire_buffer[0][x] > 0
          /\ fire_sampled_max(x, 0) < max_heat

\* the identities in the display group and in active_labels
group_labels(e) == {e.group[i] : i \in 1..Len(e.group)}
listed_labels(e) == {e.active_labels[i].id : i \in 1..Len(e.active_labels)}

\* C30: after every update() and every reset() of ColorMatrixEffect the
\* labels in active_labels are exactly the labels in the display group; no
\* label outlives the 51st update() after the one that created it, so at
\* most 51 updates' worth of labels are alive; reset() leaves both empty.
C30_LabelLifetime ==
    (matrix.op \in {"update", "reset"} /\ matrix.raised = "none") =>
        /\ listed_labels(matrix.obj) = group_labels(matrix.obj)
        /\ \A i \in 1..Len(matrix.obj.active_labels) :
              matrix.obj.active_labels[i].age <= label_max_age
        /\ Len(matrix.obj.group) <= (label_max_age + 1) * color_matrix_columns
        /\ matrix.op = "reset" =>
              /\ matrix.obj.active_labels = <<>>
              /\ matrix.obj.group = <<>>

\* C30 for the labels that reached active_labels: each is in the group and
\* no older than 50 after an update(), and reset() empties the list and
\* takes out of the group the labels the list held, no other
C30_ListedLabelLifetime ==
    (matrix.op \in {"update", "reset"} /\ matrix.raised = "none") =>
        /\ list_only(matrix.obj) = {}
        /\ \A i \in 1..Len(matrix.obj.active_labels) :
              matrix.obj.active_labels[i].age <= label_max_age
        /\ Len(matrix.obj.active_labels) <= (label_max_age + 1) * color_matrix_columns
        /\ matrix.op = "reset" =>
              /\ matrix.obj.active_labels = <<>>
              /\ group_labels(matrix.obj) = group_only(matrix.before)

\* an update() that took a label of age 50 out of the list and the group
C30_LabelExpired ==
    /\ matrix.op = "update"
    /\ \E i \in 1..Len(matrix.before.active_labels) :
          /\ matrix.before.active_labels[i].age = label_max_age
          /\ matrix.before.active_labels[i].id \notin listed_labels(matrix.obj)
          /\ matrix.before.active_labels[i].id \notin group_labels(matrix.obj)

====
